---- MODULE Spec2Model ----
(***************************************************************************)
(* A model of the ADF volume engine of amiga-fuse (src/amiga-fuse.cpp):    *)
(* the 512-byte block image, the free/used block sets, the bitmap, the     *)
(* hash-chained directories, the data-block chains of files, the directory *)
(* cache and the FUSE handlers that drive them.                            *)
(*                                                                         *)
(* A block is a function from word index 0..127 to a 32-bit word.  Words   *)
(* hold the value the code sees after endian::from_big_endian, kept as a   *)
(* two's-complement integer in -2^31 .. 2^31-1 (TLC integers are 32 bits   *)
(* wide), so that a uint32_t with the top bit set is the negative number   *)
(* with the same bit pattern.  The image is kept sparse: a block that is   *)
(* not in the domain of the image holds 512 zero bytes.                    *)
(***************************************************************************)
EXTENDS Integers, Sequences, FiniteSets, TLC

\* ------------------------------------------------------------ constants
BLOCK_SIZE == 512
BCPL_STRING_MAX == 30
HASH_TABLE_SIZE == 72
T_HEADER == 2
T_DATA == 8
ST_ROOT == 1
ST_DIR == 2
ST_FILE == -3
\* the root block of a DD floppy (parse_filesystem)
ROOT_BLOCK == 880
\* payload bytes of a data block (DataBlock::data)
DATA_BYTES == 488
\* blocks covered by one bitmap page (127 * 32)
BITMAP_SPAN == 4064
\* entries of RootBlock::bm_pages
BM_PAGES == 25
\* 32-bit words in a block (calculate_checksum)
BLOCK_WORDS == BLOCK_SIZE \div 4
AMIGA_EPOCH_OFFSET == 2922 * 24 * 60 * 60

\* errno values returned (negated) by the handlers
ENOENT == 2
EIO == 5
EEXIST == 17
ENOTDIR == 20
EISDIR == 21
EINVAL == 22
ENOSPC == 28
EROFS == 30
ENAMETOOLONG == 36
ENOTEMPTY == 39

\* ------------------------------------------------------------ bounds
\* blocks of the image that lie after the bitmap page (the image has
\* ROOT_BLOCK + 2 + TailBlocks blocks)
TailBlocks == 3
\* the clock advances at most this many seconds
MaxClock == 1
\* the handlers that change the volume are called at most this many times
MaxOps == 3
\* day (since the Amiga epoch) on which the volume is mounted
MountDay == 17000
\* the number of bytes written to each of the three files of one bucket
CollideSize == 10

\* ------------------------------------------------------------ 32-bit words
HALF == 65536

Lo16(w) == w % HALF
Hi16(w) == (w \div HALF) % HALF
\* the word with the given unsigned 16-bit halves
MkWord(hi, lo) == (IF hi >= 32768 THEN hi - HALF ELSE hi) * HALF + lo

\* byte k (0 = most significant, as stored first on disk) of a word
ByteOf(w, k) ==
    CASE k = 0 -> (w \div 16777216) % 256
      [] k = 1 -> (w \div HALF) % 256
      [] k = 2 -> (w \div 256) % 256
      [] OTHER -> w % 256
WordOf(b0, b1, b2, b3) ==
    (IF b0 >= 128 THEN b0 - 256 ELSE b0) * 16777216 + b1 * HALF + b2 * 256 + b3

Pow2(n) == IF n = 0 THEN 1 ELSE 2 ^ n
\* map_word & (1 << bit)
TestBit(w, bit) == IF bit = 31 THEN w < 0 ELSE (w \div Pow2(bit)) % 2 = 1
\* map_word |= (1 << bit)
SetBit(w, bit) ==
    IF TestBit(w, bit) THEN w
    ELSE IF bit = 31 THEN (w - 2147483647) - 1 ELSE w + Pow2(bit)
\* map_word &= ~(1 << bit)
ClearBit(w, bit) ==
    IF ~TestBit(w, bit) THEN w
    ELSE IF bit = 31 THEN (w + 2147483647) + 1 ELSE w - Pow2(bit)

\* ------------------------------------------------------------ blocks
Words == 0 .. (BLOCK_WORDS - 1)
ZeroBlock == [w \in Words |-> 0]

\* get_block: the 512 bytes of block b of image d
Blk(d, b) == IF b \in DOMAIN d THEN d[b] ELSE ZeroBlock
\* the image with block b replaced
SetBlk(d, b, blk) ==
    IF blk = ZeroBlock
    THEN [x \in (DOMAIN d) \ {b} |-> d[x]]
    ELSE [x \in (DOMAIN d) \cup {b} |-> IF x = b THEN blk ELSE d[x]]

\* byte at byte offset off of a block
GetByte(blk, off) == ByteOf(blk[off \div 4], off % 4)

\* ------------------------------------------------------------ checksum
\* the sums of the low and of the high 16-bit halves of words lo..hi-1,
\* halving the range (the loop of calculate_checksum)
RECURSIVE SumLo(_, _, _, _)
SumLo(blk, lo, hi, skip) ==
    IF hi - lo = 1 THEN (IF lo = skip THEN 0 ELSE Lo16(blk[lo]))
    ELSE LET mid == (lo + hi) \div 2
         IN  SumLo(blk, lo, mid, skip) + SumLo(blk, mid, hi, skip)
RECURSIVE SumHi(_, _, _, _)
SumHi(blk, lo, hi, skip) ==
    IF hi - lo = 1 THEN (IF lo = skip THEN 0 ELSE Hi16(blk[lo]))
    ELSE LET mid == (lo + hi) \div 2
         IN  SumHi(blk, lo, mid, skip) + SumHi(blk, mid, hi, skip)

\* the sum mod 2^32 of the words of a block, leaving out word skip
\* (skip = -1 leaves out none), as its two 16-bit halves
Carry(hi, lo) == <<(hi + (lo \div HALF)) % HALF, lo % HALF>>
SumHalves(blk, skip) ==
    Carry(SumHi(blk, 0, BLOCK_WORDS, skip), SumLo(blk, 0, BLOCK_WORDS, skip))

\* AdfImage::calculate_checksum: -sum (mod 2^32)
Negate(s) ==
    IF s[2] = 0 THEN MkWord((HALF - s[1]) % HALF, 0)
    ELSE MkWord(HALF - 1 - s[1], HALF - s[2])
calculate_checksum(blk, checksum_offset) == Negate(SumHalves(blk, checksum_offset))

\* AdfImage::update_checksum
update_checksum(blk, checksum_offset) ==
    [blk EXCEPT ![checksum_offset] =
        calculate_checksum([blk EXCEPT ![checksum_offset] = 0], checksum_offset)]

\* AdfImage::update_bitmap_checksum
update_bitmap_checksum(blk) == update_checksum(blk, 0)

\* ------------------------------------------------------------ BCPL strings
\* A string is a sequence of byte values.
\* BcplString::read on the 32-byte name field at byte offset off
BcplRead(blk, off) ==
    LET n == GetByte(blk, off)
        len == IF n < BCPL_STRING_MAX THEN n ELSE BCPL_STRING_MAX
    IN  [i \in 1 .. len |-> GetByte(blk, off + i)]

\* byte k of the field BcplString::write leaves (old where it writes nothing)
BcplByte(str, k, old) ==
    LET len == IF Len(str) < BCPL_STRING_MAX THEN Len(str) ELSE BCPL_STRING_MAX
    IN  IF k = 0 THEN len
        ELSE IF k <= len THEN str[k]
        ELSE IF k <= BCPL_STRING_MAX THEN 0
        ELSE old

\* BcplString::write on the name field at word offset 108 (byte 432)
BcplWrite(blk, str) ==
    [w \in Words |->
        IF w >= 108 /\ w <= 115
        THEN LET k == (w - 108) * 4
             IN  WordOf(BcplByte(str, k, ByteOf(blk[w], 0)),
                        BcplByte(str, k + 1, ByteOf(blk[w], 1)),
                        BcplByte(str, k + 2, ByteOf(blk[w], 2)),
                        BcplByte(str, k + 3, ByteOf(blk[w], 3)))
        ELSE blk[w]]

\* ------------------------------------------------------------ time
\* the seconds within the minute are stored as they are
AmigaTime_seconds(amiga_time) ==
    <<amiga_time \div (24 * 60 * 60),
      (amiga_time % (24 * 60 * 60)) \div 60,
      (amiga_time % (24 * 60 * 60)) % 60>>
\* AdfImage::unix_to_amiga_time
AmigaTime(amiga_time) ==
    <<amiga_time \div (24 * 60 * 60),
      (amiga_time % (24 * 60 * 60)) \div 60,
      ((amiga_time % (24 * 60 * 60)) % 60) * 50>>
unix_to_amiga_time(unix_time) == AmigaTime(unix_time - AMIGA_EPOCH_OFFSET)

\* AdfImage::amiga_to_unix_time
amiga_to_unix_time(days, mins, ticks) ==
    days * 24 * 60 * 60 + mins * 60 + (ticks \div 50) + AMIGA_EPOCH_OFFSET

\* AdfImage::touch_fileblock (FileBlock days/mins/ticks at bytes 408..419)
touch_fileblock(blk, t) ==
    [blk EXCEPT ![102] = unix_to_amiga_time(t)[1],
                ![103] = unix_to_amiga_time(t)[2],
                ![104] = unix_to_amiga_time(t)[3]]

\* AdfImage::touch_rootblock (RootBlock days/mins/ticks at bytes 420..431)
touch_rootblock(blk, t) ==
    [blk EXCEPT ![105] = unix_to_amiga_time(t)[1],
                ![106] = unix_to_amiga_time(t)[2],
                ![107] = unix_to_amiga_time(t)[3]]

\* ------------------------------------------------------------ hash
ToUpper(c) == IF c >= 97 /\ c <= 122 THEN c - 32 ELSE c

\* hash = hash * 13 + toupper(c) on uint32_t, as 16-bit halves
RECURSIVE HashFold(_, _, _)
HashFold(h, name, i) ==
    IF i > Len(name) THEN h
    ELSE LET lo == h[2] * 13 + ToUpper(name[i])
             hi == h[1] * 13 + (lo \div HALF)
         IN  HashFold(<<hi % HALF, lo % HALF>>, name, i + 1)

\* AdfImage::hash_name
HashMod(h) ==
    ((h[1] % HASH_TABLE_SIZE) * (HALF % HASH_TABLE_SIZE) + h[2]) % HASH_TABLE_SIZE
hash_name(name) == HashMod(HashFold(<<0, Len(name)>>, name, 1))

\* ------------------------------------------------------------ volume
\* file_size_ / BLOCK_SIZE
TotalBlocks == ROOT_BLOCK + 2 + TailBlocks
\* get_block returns a block (not nullptr) for these block numbers
InImage(b) == b >= 0 /\ b < TotalBlocks

\* A volume value: the image (disk), free_blocks_ (free), used_blocks_ (used),
\* dir_cache_ (cache) and read_only_.
\* Word offsets used below, from the packed structs:
\*   RootBlock: hash_table 6..77, bm_pages 79..103, days 105, name 108, sec_type 127
\*   FileBlock: first_data 4, data_blocks 6..77, file_size 81, days 102,
\*              filename 108, hash_chain 124, parent 125, sec_type 127
\*   DataBlock: type 0, header_key 1, seq_num 2, data_size 3, next_data 4, data 6..127
\*   BitmapBlock: checksum 0, map 1..127

Min(S) == CHOOSE x \in S : \A y \in S : x <= y

\* AdfImage::update_bitmap_for_block; set_map_bit is its last part, on
\* the bitmap block bm_block
set_map_bit(d, bm_block, word_index, bit_index, is_free) ==
    SetBlk(d, bm_block,
        update_bitmap_checksum(
            [Blk(d, bm_block) EXCEPT ![1 + word_index] =
                IF is_free THEN SetBit(@, bit_index) ELSE ClearBit(@, bit_index)]))
bitmap_page(d, bm_block, bit_offset, is_free) ==
    IF bm_block = 0 \/ ~InImage(bm_block) THEN d
    ELSE set_map_bit(d, bm_block, bit_offset \div 32, bit_offset % 32, is_free)
\* a faulty update_bitmap_for_block: the bitmap page is left as it is
bitmap_untouched(d, block, is_free) == d
update_bitmap_for_block(d, block, is_free) ==
    IF block >= TotalBlocks THEN d
    ELSE IF block \div BITMAP_SPAN >= BM_PAGES THEN d
    ELSE bitmap_page(d, Blk(d, ROOT_BLOCK)[79 + (block \div BITMAP_SPAN)],
                     block % BITMAP_SPAN, is_free)

\* the memset of allocate_block on the new block
\* the block is handed out as it was
zero_block_kept(d, block) == d
\* a faulty memset of twice BLOCK_SIZE: the block after it is zeroed too
zero_block_wide(d, block) ==
    IF InImage(block) /\ InImage(block + 1)
    THEN SetBlk(SetBlk(d, block, ZeroBlock), block + 1, ZeroBlock)
    ELSE d
zero_block(d, block) == IF InImage(block) THEN SetBlk(d, block, ZeroBlock) ELSE d

\* AdfImage::allocate_block: the volume afterwards and the block (0: none);
\* take_block is what it does with *free_blocks_.begin()
take_block(v, block) ==
    IF block \div BITMAP_SPAN >= BM_PAGES THEN [v |-> v, block |-> 0]
    ELSE IF Blk(v.disk, ROOT_BLOCK)[79 + (block \div BITMAP_SPAN)] = 0
    THEN [v |-> v, block |-> 0]
    ELSE [v |-> [v EXCEPT !.free = @ \ {block},
                          !.used = @ \cup {block},
                          !.disk = zero_block(
                                       update_bitmap_for_block(@, block, FALSE), block)],
          block |-> block]
\* the last free block is never handed out
allocate_block_spare(v) ==
    IF Cardinality(v.free) <= 1 THEN [v |-> v, block |-> 0]
    ELSE take_block(v, Min(v.free))
allocate_block(v) ==
    IF v.free = {} THEN [v |-> v, block |-> 0]
    ELSE take_block(v, Min(v.free))

\* a faulty free_block: the block stays in used_blocks_
free_block_kept(v, block) ==
    IF block < 2 \/ block = ROOT_BLOCK THEN v
    ELSE [v EXCEPT !.free = @ \cup {block}]

\* a faulty free_block: the bitmap page is not told
free_block_in_memory(v, block) ==
    IF block < 2 \/ block = ROOT_BLOCK THEN v
    ELSE [v EXCEPT !.used = @ \ {block}, !.free = @ \cup {block}]
\* a faulty free_block: any block is released
free_block_any(v, block) ==
    [v EXCEPT !.used = @ \ {block},
              !.free = @ \cup {block},
              !.disk = update_bitmap_for_block(@, block, TRUE)]
\* AdfImage::free_block
free_block(v, block) ==
    IF block < 2 \/ block = ROOT_BLOCK THEN v
    ELSE [v EXCEPT !.used = @ \ {block},
                   !.free = @ \cup {block},
                   !.disk = update_bitmap_for_block(@, block, TRUE)]

\* ------------------------------------------------------------ open
\* the free and used sets as a record fu = [free, used]
MarkUsed(fu, b) == [free |-> fu.free \ {b}, used |-> fu.used \cup {b}]

\* the data-chain loop of scan_used_blocks
RECURSIVE scan_data(_, _, _)
scan_data(d, data_block, fu) ==
    IF data_block = 0 THEN fu
    ELSE IF ~InImage(data_block) THEN MarkUsed(fu, data_block)
    ELSE scan_data(d, Blk(d, data_block)[4], MarkUsed(fu, data_block))

\* the slots i..71 of a hash table that are not zero: the for loops over
\* the 72 slots act on these only, in ascending order
NonZeroSlots(d, block_num, i) ==
    {j \in i .. (HASH_TABLE_SIZE - 1) : Blk(d, block_num)[6 + j] # 0}

\* AdfImage::scan_used_blocks.  scan_slots is its loop over the 72 slots,
\* scan_file its data-chain part and scan_next its hash_chain part.
RECURSIVE scan_used_blocks(_, _, _)
RECURSIVE scan_slots(_, _, _, _)
scan_slots(d, block_num, i, fu) ==
    IF NonZeroSlots(d, block_num, i) = {} THEN fu
    ELSE scan_slots(d, block_num, Min(NonZeroSlots(d, block_num, i)) + 1,
             scan_used_blocks(d,
                 Blk(d, block_num)[6 + Min(NonZeroSlots(d, block_num, i))], fu))
scan_next(d, block, fu) ==
    IF block[124] # 0 THEN scan_used_blocks(d, block[124], fu) ELSE fu
scan_file(d, block, fu) ==
    scan_next(d, block,
        IF block[127] = ST_FILE THEN scan_data(d, block[4], fu) ELSE fu)
scan_used_blocks(d, block_num, fu) ==
    IF block_num = 0 \/ block_num \in fu.used THEN fu
    ELSE IF ~InImage(block_num) THEN MarkUsed(fu, block_num)
    ELSE scan_file(d, Blk(d, block_num),
             IF Blk(d, block_num)[127] \in {ST_ROOT, 0, ST_DIR}
             THEN scan_slots(d, block_num, 0, MarkUsed(fu, block_num))
             ELSE MarkUsed(fu, block_num))

\* the blocks of bitmap page i whose bit is CLEAR (inner loops of parse_bitmap)
ClearBits(bitmap, i) ==
    {b \in 0 .. (TotalBlocks - 1) :
        /\ b \div BITMAP_SPAN = i
        /\ ~TestBit(bitmap[1 + ((b % BITMAP_SPAN) \div 32)], b % 32)}

\* one round of the loop of parse_bitmap over bm_pages
parse_page(d, i, bm_block, fu) ==
    IF InImage(bm_block)
    THEN [free |-> (fu.free \ {bm_block}) \ ClearBits(Blk(d, bm_block), i),
          used |-> (fu.used \cup {bm_block}) \cup ClearBits(Blk(d, bm_block), i)]
    ELSE MarkUsed(fu, bm_block)

\* the loop of parse_bitmap over bm_pages, which ends at the first zero entry
RECURSIVE parse_pages(_, _, _)
parse_pages(d, i, fu) ==
    IF i >= BM_PAGES THEN fu
    ELSE IF Blk(d, ROOT_BLOCK)[79 + i] = 0 THEN fu
    ELSE parse_pages(d, i + 1, parse_page(d, i, Blk(d, ROOT_BLOCK)[79 + i], fu))

\* AdfImage::parse_bitmap: free_blocks_ and used_blocks_ of image d
parse_bitmap(d) ==
    scan_slots(d, ROOT_BLOCK, 0,
        MarkUsed(parse_pages(d, 0, [free |-> 2 .. (TotalBlocks - 1), used |-> {0, 1}]),
                 ROOT_BLOCK))

\* AdfImage::parse_filesystem: does open accept image d
parse_filesystem(d) ==
    /\ InImage(0) /\ InImage(ROOT_BLOCK)
    /\ Blk(d, ROOT_BLOCK)[0] = T_HEADER
    /\ Blk(d, ROOT_BLOCK)[127] \in {ST_ROOT, 0}

\* ------------------------------------------------------------ directories
SLASH == 47
RootPath == <<SLASH>>

\* path.find_last_of('/') as a 1-based index, 0 when there is none
LastSlash(path) ==
    IF \A i \in 1 .. Len(path) : path[i] # SLASH THEN 0
    ELSE CHOOSE i \in 1 .. Len(path) :
             path[i] = SLASH /\ \A j \in (i + 1) .. Len(path) : path[j] # SLASH
\* (last_slash == 0) ? "/" : path.substr(0, last_slash)
ParentPath(path) ==
    IF LastSlash(path) = 1 THEN RootPath
    ELSE IF LastSlash(path) = 0 THEN path
    ELSE SubSeq(path, 1, LastSlash(path) - 1)
\* path.substr(last_slash + 1)
LastName(path) == SubSeq(path, LastSlash(path) + 1, Len(path))

\* the Entry list_directory builds from header block, which is block block_num
EntryOf(block, block_num) ==
    [name |-> BcplRead(block, 432),
     is_directory |-> block[127] = ST_DIR,
     size |-> IF block[127] = ST_DIR THEN 0 ELSE block[81],
     mtime |-> amiga_to_unix_time(block[102], block[103], block[104]),
     block_num |-> block_num]

\* a faulty walk: a header with an empty name ends the chain
RECURSIVE list_chain_stops(_, _)
list_chain_stops(d, block_num) ==
    IF block_num = 0 \/ ~InImage(block_num) THEN <<>>
    ELSE IF BcplRead(Blk(d, block_num), 432) = <<>> THEN <<>>
    ELSE <<EntryOf(Blk(d, block_num), block_num)>>
         \o list_chain_stops(d, Blk(d, block_num)[124])
\* the while loop of list_directory over one hash chain
RECURSIVE list_chain(_, _)
list_chain(d, block_num) ==
    IF block_num = 0 \/ ~InImage(block_num) THEN <<>>
    ELSE IF BcplRead(Blk(d, block_num), 432) = <<>>
    THEN list_chain(d, Blk(d, block_num)[124])
    ELSE <<EntryOf(Blk(d, block_num), block_num)>>
         \o list_chain(d, Blk(d, block_num)[124])

\* the for loop of list_directory over the 72 slots
RECURSIVE list_slots(_, _, _)
list_slots(d, dir_block, i) ==
    IF NonZeroSlots(d, dir_block, i) = {} THEN <<>>
    ELSE list_chain(d, Blk(d, dir_block)[6 + Min(NonZeroSlots(d, dir_block, i))])
         \o list_slots(d, dir_block, Min(NonZeroSlots(d, dir_block, i)) + 1)

\* cache_directory
cache_directory(cache, path, entries) ==
    [p \in (DOMAIN cache) \cup {path} |-> IF p = path THEN entries ELSE cache[p]]

NoEntry == [name |-> <<>>, is_directory |-> FALSE, size |-> 0, mtime |-> 0,
            block_num |-> 0]

\* AdfImage::list_directory, AdfImage::get_entry and
\* AdfImage::find_directory_block.  Each returns the volume too, because
\* list_directory fills dir_cache_.  now is time(nullptr).
\* list_found, entry_in and dir_of are what each does with the result of
\* the call it makes.
RECURSIVE list_directory(_, _, _)
RECURSIVE get_entry(_, _, _)
RECURSIVE find_directory_block(_, _, _)
list_walk(v, path, dir_block, entries) ==
    [v |-> [v EXCEPT !.cache = cache_directory(@, path, entries)],
     ok |-> TRUE, entries |-> entries]
list_found(f, path) ==
    IF f.block = 0 \/ ~InImage(f.block)
    THEN [v |-> f.v, ok |-> FALSE, entries |-> <<>>]
    ELSE list_walk(f.v, path, f.block, list_slots(f.v.disk, f.block, 0))
list_directory(v, path, now) ==
    IF path \in DOMAIN v.cache
    THEN [v |-> v, ok |-> TRUE, entries |-> v.cache[path]]
    ELSE list_found(find_directory_block(v, path, now), path)
entry_in(l, name) ==
    IF ~l.ok \/ \A i \in 1 .. Len(l.entries) : l.entries[i].name # name
    THEN [v |-> l.v, ok |-> FALSE, entry |-> NoEntry]
    ELSE [v |-> l.v, ok |-> TRUE,
          entry |-> l.entries[CHOOSE i \in 1 .. Len(l.entries) :
                                 /\ l.entries[i].name = name
                                 /\ \A j \in 1 .. (i - 1) : l.entries[j].name # name]]
get_entry(v, path, now) ==
    IF path = RootPath \/ path = <<>>
    THEN [v |-> v, ok |-> TRUE,
          entry |-> [name |-> <<>>, is_directory |-> TRUE, size |-> 0,
                     mtime |-> now, block_num |-> ROOT_BLOCK]]
    ELSE entry_in(list_directory(v, ParentPath(path), now), LastName(path))
dir_of(g) ==
    [v |-> g.v,
     block |-> IF g.ok /\ g.entry.is_directory THEN g.entry.block_num ELSE 0]
find_directory_block(v, path, now) ==
    IF path = RootPath \/ path = <<>> THEN [v |-> v, block |-> ROOT_BLOCK]
    ELSE dir_of(get_entry(v, path, now))

\* AdfImage::get_actual_file_size
get_actual_file_size(d, file_block_num) ==
    IF ~InImage(file_block_num) THEN 0 ELSE Blk(d, file_block_num)[81]

\* ------------------------------------------------------------ block updates
\* one field of block b set through a writable pointer into the mapping
SetWord(d, b, w, val) == SetBlk(d, b, [Blk(d, b) EXCEPT ![w] = val])
\* update_checksum on block b of the mapping
Cksum(d, b) == SetBlk(d, b, update_checksum(Blk(d, b), 5))

\* the end of add_to_directory and remove_from_directory: the directory
\* block is touched (touch_rootblock for the root, touch_fileblock
\* otherwise) and checksummed
touch_dir(d, dir_block, now) ==
    SetBlk(d, dir_block,
        update_checksum(
            IF dir_block = ROOT_BLOCK
            THEN touch_rootblock(Blk(d, dir_block), now)
            ELSE touch_fileblock(Blk(d, dir_block), now), 5))

\* add_to_directory: the new header takes the old head of the chain
link_entry(d, file_block, existing) ==
    IF InImage(file_block)
    THEN Cksum(SetWord(d, file_block, 124, existing), file_block)
    ELSE d

\* a faulty add_to_directory: the header goes into slot 0 whatever its name
add_to_slot0(d, dir_block, file_block, name, now) ==
    IF ~InImage(dir_block) THEN d
    ELSE touch_dir(
             link_entry(SetWord(d, dir_block, 6, file_block),
                        file_block, Blk(d, dir_block)[6]),
             dir_block, now)

\* AdfImage::add_to_directory
add_to_directory(d, dir_block, file_block, name, now) ==
    IF ~InImage(dir_block) THEN d
    ELSE touch_dir(
             link_entry(SetWord(d, dir_block, 6 + hash_name(name), file_block),
                        file_block, Blk(d, dir_block)[6 + hash_name(name)]),
             dir_block, now)

\* a faulty remove_from_chain: the chain ends where the target was
RECURSIVE remove_cuts_chain(_, _, _)
remove_cuts_chain(d, current, target_block) ==
    IF current = 0 \/ ~InImage(current) THEN [d |-> d, found |-> FALSE]
    ELSE IF Blk(d, current)[124] = target_block
    THEN [d |-> Cksum(SetWord(d, current, 124, 0), current), found |-> TRUE]
    ELSE remove_cuts_chain(d, Blk(d, current)[124], target_block)

\* AdfImage::remove_from_chain: the image afterwards and whether it unlinked
RECURSIVE remove_from_chain(_, _, _)
remove_from_chain(d, current, target_block) ==
    IF current = 0 \/ ~InImage(current) THEN [d |-> d, found |-> FALSE]
    ELSE IF Blk(d, current)[124] = target_block
    THEN [d |-> Cksum(SetWord(d, current, 124,
                          IF InImage(target_block)
                          THEN Blk(d, target_block)[124] ELSE 0), current),
          found |-> TRUE]
    ELSE remove_from_chain(d, Blk(d, current)[124], target_block)

\* remove_from_directory after remove_from_chain returned r
chain_removed(r, dir_block, now) ==
    IF r.found THEN touch_dir(r.d, dir_block, now) ELSE r.d

\* a faulty remove_from_directory: the head of the bucket is not looked at
remove_not_head(d, dir_block, file_block, name, now) ==
    IF ~InImage(dir_block) THEN d
    ELSE chain_removed(
             remove_from_chain(d, Blk(d, dir_block)[6 + hash_name(name)], file_block),
             dir_block, now)

\* AdfImage::remove_from_directory
remove_from_directory(d, dir_block, file_block, name, now) ==
    IF ~InImage(dir_block) THEN d
    ELSE IF Blk(d, dir_block)[6 + hash_name(name)] = file_block
    THEN touch_dir(SetWord(d, dir_block, 6 + hash_name(name),
                       IF InImage(file_block) THEN Blk(d, file_block)[124] ELSE 0),
                   dir_block, now)
    ELSE chain_removed(
             remove_from_chain(d, Blk(d, dir_block)[6 + hash_name(name)], file_block),
             dir_block, now)

\* ------------------------------------------------------------ read
Zeros(n) == [i \in 1 .. n |-> 0]
MinOf(a, b) == IF a < b THEN a ELSE b
MaxOf(a, b) == IF a > b THEN a ELSE b

\* the seek loop of read_file: the block at logical index want_idx (0: none)
RECURSIVE read_seek(_, _, _, _)
read_seek(d, cur, cur_idx, want_idx) ==
    IF cur # 0 /\ cur_idx < want_idx
    THEN IF ~InImage(cur) THEN 0
         ELSE read_seek(d, Blk(d, cur)[4], cur_idx + 1, want_idx)
    ELSE cur

\* std::min<uint32_t>(488u, data_size): data_size is read unsigned
DbSize(raw) == IF raw < 0 \/ raw > DATA_BYTES THEN DATA_BYTES ELSE raw

\* the copy takes the payload whatever data_size says
read_chunk_raw(db, pos_in_block, need, take) ==
    [i \in 1 .. need |-> GetByte(db, 24 + pos_in_block + i - 1)]
\* the bytes one round of the copy loop produces from data block db: take
\* bytes of its payload, then zeros up to need
read_chunk(db, pos_in_block, need, take) ==
    [i \in 1 .. need |->
        IF i <= take THEN GetByte(db, 24 + pos_in_block + i - 1) ELSE 0]

\* the copy loop of read_file: the bytes still to produce.  read_block is
\* one round on a data block, read_hole one round on a hole.
RECURSIVE read_loop(_, _, _, _)
read_block(d, cur, db, pos_in_block, left, need) ==
    read_chunk(db, pos_in_block, need,
        IF pos_in_block < DbSize(db[3])
        THEN MinOf(need, DbSize(db[3]) - pos_in_block) ELSE 0)
    \o read_loop(d, IF pos_in_block + need >= DATA_BYTES THEN db[4] ELSE cur,
           IF pos_in_block + need >= DATA_BYTES THEN 0 ELSE pos_in_block + need,
           left - need)
read_hole(d, pos_in_block, left, can) ==
    Zeros(can) \o
    read_loop(d, 0,
        IF pos_in_block + can >= DATA_BYTES THEN 0 ELSE pos_in_block + can,
        left - can)
read_loop(d, cur, pos_in_block, left) ==
    IF left = 0 THEN <<>>
    ELSE IF cur = 0
    THEN read_hole(d, pos_in_block, left, MinOf(left, DATA_BYTES - pos_in_block))
    ELSE IF ~InImage(cur) THEN Zeros(left)
    ELSE read_block(d, cur, Blk(d, cur), pos_in_block, left,
                    MinOf(left, DATA_BYTES - pos_in_block))

\* AdfImage::read_file
read_file(d, file_block_num, offset, size) ==
    IF file_block_num = 0 \/ ~InImage(file_block_num) THEN <<>>
    ELSE IF offset >= Blk(d, file_block_num)[81] THEN <<>>
    ELSE read_loop(d,
             read_seek(d, Blk(d, file_block_num)[4], 0, offset \div DATA_BYTES),
             offset % DATA_BYTES,
             MinOf(size, Blk(d, file_block_num)[81] - offset))

\* ------------------------------------------------------------ write
\* the fields write_file sets in a new data block: type, header_key,
\* seq_num, data_size 0, next_data 0 and a zeroed payload
fresh_data(old, file_block_num, current_pos) ==
    [w \in Words |->
        CASE w = 0 -> T_DATA
          [] w = 1 -> file_block_num
          [] w = 2 -> (current_pos \div DATA_BYTES) + 1
          [] w = 5 -> old[5]
          [] OTHER -> 0]

\* "Link into chain": after prev_block, or as first_data of the header
link_prev(d, file_block_num, new_block, prev_block) ==
    IF prev_block # 0
    THEN IF InImage(prev_block)
         THEN Cksum(SetWord(d, prev_block, 4, new_block), prev_block)
         ELSE d
    ELSE Cksum(SetWord(d, file_block_num, 4, new_block), file_block_num)

\* a new data block of write_file, set up, linked and then checksummed
link_new_data(d, file_block_num, new_block, prev_block, current_pos) ==
    Cksum(link_prev(SetBlk(d, new_block,
                        fresh_data(Blk(d, new_block), file_block_num, current_pos)),
                    file_block_num, new_block, prev_block),
          new_block)

\* the walk of write_file along the existing chain.
\* s = [v, cur, prev, pos, err, written, done]
RECURSIVE write_walk(_, _)
write_walk(s, target_offset) ==
    IF s.cur = 0 THEN s
    ELSE IF ~InImage(s.cur) THEN [s EXCEPT !.err = -EIO]
    ELSE IF s.pos + DATA_BYTES > target_offset THEN s
    ELSE write_walk([s EXCEPT !.pos = @ + DATA_BYTES,
                              !.prev = s.cur,
                              !.cur = Blk(s.v.disk, s.cur)[4]], target_offset)

\* the loop of write_file that bridges a gap with zero-filled blocks;
\* gap_block is one round, after allocate_block returned a
RECURSIVE write_gap(_, _, _)
gap_block(s, a, file_block_num, target_offset) ==
    IF a.block = 0 THEN [s EXCEPT !.err = -ENOSPC]
    ELSE IF ~InImage(a.block) THEN [s EXCEPT !.v = a.v, !.err = -EIO]
    ELSE write_gap([s EXCEPT !.v = [a.v EXCEPT !.disk =
                                       link_new_data(@, file_block_num, a.block,
                                                     s.prev, s.pos)],
                             !.prev = a.block,
                             !.cur = a.block,
                             !.pos = @ + DATA_BYTES],
                   file_block_num, target_offset)
write_gap(s, file_block_num, target_offset) ==
    IF s.pos + DATA_BYTES <= target_offset
    THEN gap_block(s, allocate_block(s.v), file_block_num, target_offset)
    ELSE s

\* byte p of the payload after the memcpy of write_file
PayloadByte(buf, block_offset, bytes_written, write_size, p, old) ==
    IF p >= block_offset /\ p < block_offset + write_size
    THEN buf[bytes_written + (p - block_offset) + 1]
    ELSE old

\* the memcpy of write_file into the payload of a data block
copy_payload(blk, block_offset, buf, bytes_written, write_size) ==
    [w \in Words |->
        IF w < 6 \/ (w - 6) * 4 + 3 < block_offset
                 \/ (w - 6) * 4 >= block_offset + write_size
        THEN blk[w]
        ELSE WordOf(PayloadByte(buf, block_offset, bytes_written, write_size,
                                (w - 6) * 4, ByteOf(blk[w], 0)),
                    PayloadByte(buf, block_offset, bytes_written, write_size,
                                (w - 6) * 4 + 1, ByteOf(blk[w], 1)),
                    PayloadByte(buf, block_offset, bytes_written, write_size,
                                (w - 6) * 4 + 2, ByteOf(blk[w], 2)),
                    PayloadByte(buf, block_offset, bytes_written, write_size,
                                (w - 6) * 4 + 3, ByteOf(blk[w], 3)))]

\* "Move to next block if this one is full"
data_next(s, cur, full) ==
    IF full
    THEN [s EXCEPT !.prev = cur,
                   !.cur = Blk(s.v.disk, cur)[4],
                   !.pos = ((@ \div DATA_BYTES) + 1) * DATA_BYTES]
    ELSE [s EXCEPT !.cur = cur]

\* the loop of write_file that stores the bytes.  data_new is the
\* "Allocate new block if needed" part after allocate_block returned a,
\* data_put the rest of a round on data block cur, data_copy the memcpy,
\* the new data_size and the checksum.
RECURSIVE write_data(_, _, _, _, _)
data_copy(s, cur, block_offset, write_size, file_block_num, buf, size, target_offset) ==
    write_data(
        data_next(
            [s EXCEPT !.v = [@ EXCEPT !.disk =
                               SetBlk(@, cur,
                                   update_checksum(
                                       [copy_payload(Blk(@, cur), block_offset, buf,
                                                     s.written, write_size)
                                           EXCEPT ![3] = MaxOf(@, block_offset + write_size)],
                                       5))],
                      !.written = @ + write_size],
            cur, block_offset + write_size >= DATA_BYTES),
        file_block_num, buf, size, target_offset)
data_at(s, cur, block_offset, file_block_num, buf, size, target_offset) ==
    IF block_offset >= DATA_BYTES THEN [s EXCEPT !.err = -EIO]
    ELSE data_copy(s, cur, block_offset,
                   MinOf(size - s.written, DATA_BYTES - block_offset),
                   file_block_num, buf, size, target_offset)
data_put(s, cur, file_block_num, buf, size, target_offset) ==
    IF ~InImage(cur) THEN [s EXCEPT !.err = -EIO]
    ELSE data_at(s, cur,
                 (target_offset + s.written) - (s.pos \div DATA_BYTES) * DATA_BYTES,
                 file_block_num, buf, size, target_offset)
data_new(s, a, file_block_num, buf, size, target_offset) ==
    IF a.block = 0 THEN [s EXCEPT !.done = TRUE]
    ELSE IF ~InImage(a.block) THEN [s EXCEPT !.v = a.v, !.err = -EIO]
    ELSE data_put([s EXCEPT !.v = [a.v EXCEPT !.disk =
                                      link_new_data(@, file_block_num, a.block,
                                                    s.prev, s.pos)]],
                  a.block, file_block_num, buf, size, target_offset)
write_data(s, file_block_num, buf, size, target_offset) ==
    IF s.written >= size THEN s
    ELSE IF s.cur = 0
    THEN data_new(s, allocate_block(s.v), file_block_num, buf, size, target_offset)
    ELSE data_put(s, s.cur, file_block_num, buf, size, target_offset)

\* the size is stored only in the header of an empty file
grow_size_once(v, file_block_num, new_size) ==
    IF Blk(v.disk, file_block_num)[81] = 0
    THEN [v EXCEPT !.disk = Cksum(SetWord(@, file_block_num, 81, new_size),
                                  file_block_num)]
    ELSE v
\* "Update file size if needed"
grow_size(v, file_block_num, new_size) ==
    IF new_size # Blk(v.disk, file_block_num)[81]
    THEN [v EXCEPT !.disk = Cksum(SetWord(@, file_block_num, 81, new_size),
                                  file_block_num)]
    ELSE v

\* "Need to allocate first data block": the header is linked and
\* checksummed; the data block gets type, header_key, seq_num and
\* next_data, and no checksum
init_first(d, file_block_num, first) ==
    IF InImage(first)
    THEN SetBlk(d, first, [Blk(d, first) EXCEPT ![0] = T_DATA,
                                                ![1] = file_block_num,
                                                ![2] = 1,
                                                ![4] = 0])
    ELSE d

\* AdfImage::write_file: the volume afterwards and the value returned.
\* write_first .. write_stored are its parts in order: the first data
\* block, the walk, the gap, the store and the timestamp.
write_stored(s, file_block_num, now) ==
    IF s.err # 0 THEN [v |-> s.v, ret |-> s.err]
    ELSE IF s.done THEN [v |-> s.v, ret |-> s.written]
    ELSE [v |-> [s.v EXCEPT !.disk =
                    SetBlk(@, file_block_num,
                        update_checksum(
                            touch_fileblock(Blk(@, file_block_num), now), 5))],
          ret |-> s.written]
write_bridged(s, file_block_num, buf, size, offset, now) ==
    IF s.err # 0 THEN [v |-> s.v, ret |-> s.err]
    ELSE write_stored(write_data(s, file_block_num, buf, size, offset),
                      file_block_num, now)
write_walked(s, file_block_num, buf, size, offset, now) ==
    IF s.err # 0 THEN [v |-> s.v, ret |-> s.err]
    ELSE write_bridged(write_gap(s, file_block_num, offset),
                       file_block_num, buf, size, offset, now)
write_chain(v, first, file_block_num, buf, size, offset, now) ==
    write_walked(
        write_walk([v |-> v, cur |-> first, prev |-> 0, pos |-> 0, err |-> 0,
                    written |-> 0, done |-> FALSE], offset),
        file_block_num, buf, size, offset, now)
first_data(a, file_block_num, buf, size, offset, now) ==
    IF a.block = 0 THEN [v |-> a.v, ret |-> -ENOSPC]
    ELSE write_chain(
             [a.v EXCEPT !.disk =
                 init_first(Cksum(SetWord(@, file_block_num, 4, a.block),
                                  file_block_num),
                            file_block_num, a.block)],
             a.block, file_block_num, buf, size, offset, now)
write_first(v, file_block_num, buf, size, offset, now) ==
    IF Blk(v.disk, file_block_num)[4] = 0 /\ size > 0
    THEN first_data(allocate_block(v), file_block_num, buf, size, offset, now)
    ELSE write_chain(v, Blk(v.disk, file_block_num)[4],
                     file_block_num, buf, size, offset, now)
write_file(v, file_block_num, buf, size, offset, now) ==
    IF v.read_only THEN [v |-> v, ret |-> -EROFS]
    ELSE IF file_block_num = 0 THEN [v |-> v, ret |-> -ENOENT]
    ELSE IF ~InImage(file_block_num) THEN [v |-> v, ret |-> -EIO]
    ELSE write_first(
             grow_size(v, file_block_num,
                 MaxOf(Blk(v.disk, file_block_num)[81], offset + size)),
             file_block_num, buf, size, offset, now)

\* ------------------------------------------------------------ create, delete
EmptyCache == [p \in {} |-> <<>>]

\* the header block create_file (sec_type ST_FILE) and create_directory
\* (sec_type ST_DIR) initialise after the memset, checksummed
header_fields(block_num, parent_block, sec_type, amiga) ==
    [w \in Words |->
        CASE w = 0 -> T_HEADER
          [] w = 1 -> block_num
          [] w = 125 -> parent_block
          [] w = 127 -> sec_type
          [] w = 102 -> amiga[1]
          [] w = 103 -> amiga[2]
          [] w = 104 -> amiga[3]
          [] OTHER -> 0]
new_header(block_num, parent_block, sec_type, name, now) ==
    update_checksum(
        BcplWrite(header_fields(block_num, parent_block, sec_type,
                                unix_to_amiga_time(now)), name), 5)

\* the body shared by create_file and create_directory: create_checked
\* after get_entry returned g, create_in after find_directory_block
\* returned f, create_at after allocate_block returned a
create_at(a, parent_block, path, sec_type, now) ==
    IF a.block = 0 THEN [v |-> a.v, ret |-> -ENOSPC]
    ELSE IF ~InImage(a.block) THEN [v |-> free_block(a.v, a.block), ret |-> -EIO]
    ELSE [v |-> [a.v EXCEPT
                    !.disk = add_to_directory(
                                 SetBlk(@, a.block,
                                     new_header(a.block, parent_block, sec_type,
                                                LastName(path), now)),
                                 parent_block, a.block, LastName(path), now),
                    !.cache = EmptyCache],
          ret |-> 0]
\* a faulty variant that allocates the header before it looks at the parent
create_alloc_first(f, path, sec_type, now) ==
    IF f.block = 0 THEN [v |-> allocate_block(f.v).v, ret |-> -ENOENT]
    ELSE create_at(allocate_block(f.v), f.block, path, sec_type, now)
create_in(f, path, sec_type, now) ==
    IF f.block = 0 THEN [v |-> f.v, ret |-> -ENOENT]
    ELSE create_at(allocate_block(f.v), f.block, path, sec_type, now)
\* a faulty variant that does not look for an entry of the same name
create_unchecked(g, path, sec_type, now) ==
    create_in(find_directory_block(g.v, ParentPath(path), now),
              path, sec_type, now)
create_checked(g, path, sec_type, now) ==
    IF g.ok THEN [v |-> g.v, ret |-> -EEXIST]
    ELSE create_in(find_directory_block(g.v, ParentPath(path), now),
                   path, sec_type, now)
create_entry(v, path, sec_type, now) ==
    IF v.read_only THEN [v |-> v, ret |-> -EROFS]
    ELSE IF Len(LastName(path)) > BCPL_STRING_MAX THEN [v |-> v, ret |-> -ENAMETOOLONG]
    ELSE create_checked(get_entry(v, path, now), path, sec_type, now)

\* AdfImage::create_file
create_file(v, path, now) == create_entry(v, path, ST_FILE, now)

\* a faulty create_directory that marks the header as a file's
create_directory_as_file(v, path, now) == create_entry(v, path, ST_FILE, now)

\* AdfImage::create_directory
create_directory(v, path, now) == create_entry(v, path, ST_DIR, now)

\* the loops of delete_file and truncate_file that free a data chain
\* (free_chain_none: a faulty variant that frees nothing)
free_chain_none(v, data_block) == v
RECURSIVE free_chain(_, _)
free_chain(v, data_block) ==
    IF data_block = 0 THEN v
    ELSE free_chain(free_block(v, data_block),
                    IF InImage(data_block) THEN Blk(v.disk, data_block)[4] ELSE 0)

\* a faulty variant that frees the header and forgets the data chain
free_header_only(v, block_num) == free_block(v, block_num)

\* "Free data blocks" and "Free file block" of delete_file
free_file(v, block_num) ==
    free_block(IF InImage(block_num)
               THEN free_chain(v, Blk(v.disk, block_num)[4])
               ELSE v,
               block_num)

\* AdfImage::delete_file; delete_found after get_entry returned g,
\* delete_from after find_directory_block returned f
delete_from(f, entry, now) ==
    [v |-> [free_file([f.v EXCEPT !.disk =
                          remove_from_directory(@, f.block, entry.block_num,
                                                entry.name, now)],
                      entry.block_num)
               EXCEPT !.cache = EmptyCache],
     ret |-> 0]
delete_found(g, path, now) ==
    IF ~g.ok THEN [v |-> g.v, ret |-> -ENOENT]
    ELSE IF g.entry.is_directory THEN [v |-> g.v, ret |-> -EISDIR]
    ELSE delete_from(find_directory_block(g.v, ParentPath(path), now), g.entry, now)
\* a faulty delete_file that does not look at read_only_
delete_unguarded(v, path, now) == delete_found(get_entry(v, path, now), path, now)
delete_file(v, path, now) ==
    IF v.read_only THEN [v |-> v, ret |-> -EROFS]
    ELSE delete_found(get_entry(v, path, now), path, now)

\* AdfImage::delete_directory; rmdir_found after get_entry returned g,
\* rmdir_listed after list_directory returned contents, rmdir_from after
\* find_directory_block returned f
rmdir_from(f, entry, now) ==
    [v |-> [free_block([f.v EXCEPT !.disk =
                           remove_from_directory(@, f.block, entry.block_num,
                                                 entry.name, now)],
                       entry.block_num)
               EXCEPT !.cache = EmptyCache],
     ret |-> 0]
rmdir_listed(contents, entry, path, now) ==
    IF contents.ok /\ contents.entries # <<>>
    THEN [v |-> contents.v, ret |-> -ENOTEMPTY]
    ELSE rmdir_from(find_directory_block(contents.v, ParentPath(path), now),
                    entry, now)
rmdir_found(g, path, now) ==
    IF ~g.ok THEN [v |-> g.v, ret |-> -ENOENT]
    ELSE IF ~g.entry.is_directory THEN [v |-> g.v, ret |-> -ENOTDIR]
    ELSE rmdir_listed(list_directory(g.v, path, now), g.entry, path, now)
delete_directory(v, path, now) ==
    IF v.read_only THEN [v |-> v, ret |-> -EROFS]
    ELSE IF path = RootPath \/ path = <<>> THEN [v |-> v, ret |-> -EINVAL]
    ELSE rmdir_found(get_entry(v, path, now), path, now)

\* ------------------------------------------------------------ truncate
\* the first loop of the shrink branch: s = [data_block, prev_block, block_count]
RECURSIVE trunc_walk(_, _, _)
trunc_walk(d, s, blocks_needed) ==
    IF s.data_block # 0 /\ s.block_count < blocks_needed
    THEN trunc_walk(d,
             [data_block |-> IF InImage(s.data_block)
                             THEN Blk(d, s.data_block)[4] ELSE 0,
              prev_block |-> s.data_block,
              block_count |-> s.block_count + 1],
             blocks_needed)
    ELSE s

\* "Update last block's next pointer and data_size", on the volume v
\* whose excess blocks are freed (trunc_end_linked: a faulty variant that
\* leaves the pointer and the size)
trunc_end_linked(v, prev_block, block_num, size) == v
trunc_end(v, prev_block, block_num, size) ==
    IF prev_block # 0
    THEN IF InImage(prev_block)
         THEN [v EXCEPT !.disk =
                 Cksum(SetWord(SetWord(@, prev_block, 4, 0), prev_block, 3,
                               IF size % DATA_BYTES = 0 /\ size > 0
                               THEN DATA_BYTES ELSE size % DATA_BYTES),
                       prev_block)]
         ELSE v
    ELSE IF size = 0
    THEN [v EXCEPT !.disk = SetWord(@, block_num, 4, 0)]
    ELSE v

\* "Find and free excess blocks", after the first loop ended in s
trunc_free(v, s, block_num, size) ==
    trunc_end(free_chain(v, s.data_block), s.prev_block, block_num, size)

\* the shrink branch of truncate_file, taken when size < current_size
truncate_shrink(v, block_num, size, current_size) ==
    IF (size + 487) \div DATA_BYTES < (current_size + 487) \div DATA_BYTES
    THEN trunc_free(v,
             trunc_walk(v.disk,
                 [data_block |-> Blk(v.disk, block_num)[4],
                  prev_block |-> 0, block_count |-> 0],
                 (size + 487) \div DATA_BYTES),
             block_num, size)
    ELSE v

\* the size is stored only when the file shrinks
trunc_size_shrink(v, block_num, size, now) ==
    [v |-> [v EXCEPT !.disk =
               SetBlk(@, block_num,
                   update_checksum(
                       touch_fileblock(
                           [Blk(@, block_num) EXCEPT
                                ![81] = IF size < @ THEN size ELSE @], now),
                       5))],
     ret |-> 0]
\* "Update file size" and "Update timestamp after truncation"
trunc_size(v, block_num, size, now) ==
    [v |-> [v EXCEPT !.disk =
               SetBlk(@, block_num,
                   update_checksum(
                       touch_fileblock([Blk(@, block_num) EXCEPT ![81] = size], now),
                       5))],
     ret |-> 0]

\* AdfImage::truncate_file; truncate_found after get_entry returned g,
\* truncate_block on the header block_num (truncate_always: a faulty
\* variant without the return at size == current_size)
truncate_always(v, block_num, size, current_size, now) ==
    trunc_size(IF size < current_size
               THEN truncate_shrink(v, block_num, size, current_size)
               ELSE v,
               block_num, size, now)
truncate_block(v, block_num, size, current_size, now) ==
    IF size = current_size THEN [v |-> v, ret |-> 0]
    ELSE trunc_size(IF size < current_size
                    THEN truncate_shrink(v, block_num, size, current_size)
                    ELSE v,
                    block_num, size, now)
truncate_found(g, size, now) ==
    IF ~g.ok THEN [v |-> g.v, ret |-> -ENOENT]
    ELSE IF g.entry.is_directory THEN [v |-> g.v, ret |-> -EISDIR]
    ELSE IF ~InImage(g.entry.block_num) THEN [v |-> g.v, ret |-> -EIO]
    ELSE truncate_block(g.v, g.entry.block_num, size,
                        Blk(g.v.disk, g.entry.block_num)[81], now)
truncate_file(v, path, size, now) ==
    IF v.read_only THEN [v |-> v, ret |-> -EROFS]
    ELSE truncate_found(get_entry(v, path, now), size, now)

\* ------------------------------------------------------------ state
VARIABLES
    mapped_data_,   \* the image: block number -> block (zero blocks left out)
    free_blocks_,   \* AdfImage::free_blocks_
    used_blocks_,   \* AdfImage::used_blocks_
    dir_cache_,     \* AdfImage::dir_cache_: path -> entries
    read_only_,     \* AdfImage::read_only_
    fh,             \* the fi->fh values of the files the kernel holds open
    clock,          \* what time(nullptr) returns
    nops,           \* calls of the handlers that change the volume, so far
    last            \* the last handler called, its arguments and what it returned

vars == <<mapped_data_, free_blocks_, used_blocks_, dir_cache_, read_only_,
          fh, clock, nops, last>>

Vol == [disk |-> mapped_data_, free |-> free_blocks_, used |-> used_blocks_,
        cache |-> dir_cache_, read_only |-> read_only_]

SetVol(v) ==
    /\ mapped_data_' = v.disk
    /\ free_blocks_' = v.free
    /\ used_blocks_' = v.used
    /\ dir_cache_' = v.cache
    /\ read_only_' = v.read_only

\* ------------------------------------------------------------ inputs
\* "/a", "/A" (same hash bucket as "/a"), "/d" and "/d/a"
Paths == {<<47, 97>>, <<47, 65>>, <<47, 100>>, <<47, 100, 47, 97>>}
DirPaths == {<<47, 100>>}
\* "/" followed by a name one byte longer than a BCPL name may be
LongPath == <<SLASH>> \o [i \in 1 .. (BCPL_STRING_MAX + 1) |-> 97]
\* the same name in "/d"
LongInDir == <<47, 100>> \o LongPath
\* the paths create is called with, and those mkdir is called with
CreatePaths == Paths \cup {LongPath, LongInDir}
MkdirPaths == DirPaths \cup {<<47, 100, 47, 97>>, LongPath}
\* the paths rmdir is called with
RmdirPaths == Paths \cup {RootPath}
NearOffsets == {0, 100, 488, 1000}
\* 35136 = 72 * 488 is the first byte past 72 full data blocks
Offsets == NearOffsets \cup {HASH_TABLE_SIZE * DATA_BYTES}
\* fi->flags & O_ACCMODE of an open
O_RDONLY == 0
O_RDWR == 2
AccModes == {O_RDONLY, O_RDWR}
WriteSizes == {10, 500}
TruncSizes == {0, 50, 488, 1010}
Patterns == {1}

\* byte i (1-based) of the buffer a write passes
BufByte(pat, i) == 1 + ((pat * 31 + i) % 250)
Buf(pat, size) == [i \in 1 .. size |-> BufByte(pat, i)]

\* ------------------------------------------------------------ the image opened
\* the word with exactly the bits of S set
RECURSIVE LowBits(_, _)
LowBits(S, bit) ==
    IF bit > 30 THEN 0
    ELSE (IF bit \in S THEN Pow2(bit) ELSE 0) + LowBits(S, bit + 1)
WordFromBits(S) ==
    IF 31 \in S THEN (LowBits(S, 0) - 2147483647) - 1 ELSE LowBits(S, 0)

\* "Empty"
VolumeName == <<69, 109, 112, 116, 121>>

\* a formatted DD volume: root block at 880 (type T_HEADER, 72 hash slots,
\* bm_flag -1, one bitmap page at 881, sec_type ST_ROOT) and the bitmap page,
\* whose bit is SET for every block of freeSet
RootFields ==
    [w \in Words |->
        CASE w = 0 -> T_HEADER
          [] w = 3 -> HASH_TABLE_SIZE
          [] w = 78 -> -1
          [] w = 79 -> ROOT_BLOCK + 1
          [] w = 127 -> ST_ROOT
          [] OTHER -> 0]
FormattedRoot(now) ==
    update_checksum(touch_rootblock(BcplWrite(RootFields, VolumeName), now), 5)
FormattedBitmap(freeSet) ==
    update_bitmap_checksum(
        [w \in Words |->
            IF w = 0 THEN 0
            ELSE WordFromBits({bit \in 0 .. 31 : (w - 1) * 32 + bit \in freeSet})])
FormattedImage(freeSet, now) ==
    [b \in {0, ROOT_BLOCK, ROOT_BLOCK + 1} |->
        IF b = 0 THEN [w \in Words |-> IF w = 0 THEN 1146049280 ELSE 0]
        ELSE IF b = ROOT_BLOCK THEN FormattedRoot(now)
        ELSE FormattedBitmap(freeSet)]

\* the blocks after the bitmap page: all that is free on a volume whose
\* blocks below the root are taken
TailFree == (ROOT_BLOCK + 2) .. (TotalBlocks - 1)
\* all blocks but the boot blocks, the root and the bitmap page: what is
\* free on a freshly formatted volume
FreshFree == (2 .. (TotalBlocks - 1)) \ {ROOT_BLOCK, ROOT_BLOCK + 1}

Time0 == AMIGA_EPOCH_OFFSET + MountDay * 24 * 60 * 60

NoCall == [op |-> "open", path |-> <<>>, h |-> 0, offset |-> 0, size |-> 0,
           pat |-> 0, ret |-> 0, old_size |-> 0, flags |-> 0, data |-> <<>>]

\* the rest of the state after AdfImage::open has mapped the image
\* read/write: parse_filesystem accepts it and parse_bitmap builds the sets
Parsed(fu) == free_blocks_ = fu.free /\ used_blocks_ = fu.used
Mounted ==
    /\ parse_filesystem(mapped_data_)
    /\ Parsed(parse_bitmap(mapped_data_))
    /\ dir_cache_ = EmptyCache
    /\ fh = {}
    /\ clock = Time0
    /\ last = NoCall
Opened ==
    /\ Mounted
    /\ read_only_ = FALSE
    /\ nops = 0

\* a formatted volume whose blocks below the root are all taken
TailImage == FormattedImage(TailFree, Time0)
\* a freshly formatted volume
FreshImage == FormattedImage(FreshFree, Time0)

Init == mapped_data_ = TailImage /\ Opened
InitFresh == mapped_data_ = FreshImage /\ Opened

\* ------------------------------------------------------------ handlers
Called(op, path, h, offset, size, pat, ret, old_size) ==
    [op |-> op, path |-> path, h |-> h, offset |-> offset, size |-> size,
     pat |-> pat, ret |-> ret, old_size |-> old_size, flags |-> 0,
     data |-> <<>>]

\* the header block a path resolves to in the image (0: none), read from
\* the blocks and not from dir_cache_
DirEntries(d, parent) ==
    IF parent = 0 \/ Blk(d, parent)[127] = ST_FILE THEN <<>>
    ELSE list_slots(d, parent, 0)
FirstNamed(es, name) ==
    IF \A i \in 1 .. Len(es) : es[i].name # name THEN 0
    ELSE es[CHOOSE i \in 1 .. Len(es) :
                /\ es[i].name = name
                /\ \A j \in 1 .. (i - 1) : es[j].name # name].block_num
RECURSIVE Resolve(_, _)
Resolve(d, path) ==
    IF path = RootPath \/ path = <<>> THEN ROOT_BLOCK
    ELSE FirstNamed(DirEntries(d, Resolve(d, ParentPath(path))), LastName(path))

\* the handlers that change the volume count their calls
Counted == nops < MaxOps /\ nops' = nops + 1

\* fuse_ops::create; CreateOpen is its get_entry after create_file
\* returned 0, CreateDone the rest after create_file returned r
CreateOpen(g, path) ==
    /\ SetVol(g.v)
    /\ fh' = IF g.ok THEN fh \cup {g.entry.block_num} ELSE fh
    /\ last' = Called("create", path, 0, 0, 0, 0, 0, 0)
CreateDone(r, path) ==
    IF r.ret = 0 THEN CreateOpen(get_entry(r.v, path, clock), path)
    ELSE /\ SetVol(r.v)
         /\ fh' = fh
         /\ last' = Called("create", path, 0, 0, 0, 0, r.ret, 0)
Create(path) ==
    /\ Counted
    /\ CreateDone(create_file(Vol, path, clock), path)
    /\ UNCHANGED clock

\* what a handler that only passes on the result r leaves behind
Returned(r, op, path) ==
    /\ SetVol(r.v)
    /\ last' = Called(op, path, 0, 0, 0, 0, r.ret, 0)

\* fuse_ops::mkdir
Mkdir(path) ==
    /\ Counted
    /\ Returned(create_directory(Vol, path, clock), "mkdir", path)
    /\ UNCHANGED <<fh, clock>>

\* fuse_ops::unlink.  The kernel library does not pass on the unlink of a
\* file that is held open (it is given no rename handler to hide it with).
UnlinkDone(r, path, blk) ==
    /\ SetVol(r.v)
    /\ last' = Called("unlink", path, blk, 0, 0, 0, r.ret,
                      get_actual_file_size(mapped_data_, blk))
Unlink(path) ==
    /\ Counted
    /\ Resolve(mapped_data_, path) \notin fh
    /\ UnlinkDone(delete_file(Vol, path, clock), path, Resolve(mapped_data_, path))
    /\ UNCHANGED <<fh, clock>>

\* fuse_ops::unlink of a file that is held open: the kernel library passes
\* it on when the volume is mounted with the option hard_remove (main
\* hands the options of the command line to fuse_main); the handle stays
HardRemove(path) ==
    /\ Counted
    /\ Resolve(mapped_data_, path) \in fh
    /\ UnlinkDone(delete_file(Vol, path, clock), path, Resolve(mapped_data_, path))
    /\ UNCHANGED <<fh, clock>>

\* fuse_ops::rmdir
Rmdir(path) ==
    /\ Counted
    /\ Returned(delete_directory(Vol, path, clock), "rmdir", path)
    /\ UNCHANGED <<fh, clock>>

\* fuse_ops::truncate; TruncateDone after truncate_file returned r, on
\* the header blk the path named
TruncateDone(r, path, size, blk) ==
    /\ SetVol(IF r.ret = 0 THEN [r.v EXCEPT !.cache = EmptyCache] ELSE r.v)
    /\ last' = Called("truncate", path, blk, 0, size, 0, r.ret,
                      get_actual_file_size(mapped_data_, blk))
Truncate(path, size) ==
    /\ Counted
    /\ TruncateDone(truncate_file(Vol, path, size, clock), path, size,
                    Resolve(mapped_data_, path))
    /\ UNCHANGED <<fh, clock>>

\* fuse_ops::write through an open handle (fi->fh is never 0 after open);
\* WriteDone after write_file returned r
WriteDone(r, h, offset, size, pat) ==
    /\ SetVol(IF r.ret > 0 THEN [r.v EXCEPT !.cache = EmptyCache] ELSE r.v)
    /\ last' = Called("write", <<>>, h, offset, size, pat, r.ret,
                      get_actual_file_size(mapped_data_, h))
Write(h, offset, size, pat) ==
    /\ Counted
    /\ WriteDone(write_file(Vol, h, Buf(pat, size), size, offset, clock),
                 h, offset, size, pat)
    /\ UNCHANGED <<fh, clock>>

\* fuse_ops::open; open_result is what it returns after get_entry
\* returned g, OpenDone the rest of it
open_result(g, flags) ==
    IF ~g.ok THEN -ENOENT
    ELSE IF g.entry.is_directory THEN -EISDIR
    ELSE IF g.v.read_only /\ flags # O_RDONLY THEN -EROFS
    ELSE 0
OpenDone(g, path, flags) ==
    /\ SetVol(g.v)
    /\ fh' = IF open_result(g, flags) = 0
             THEN fh \cup {g.entry.block_num} ELSE fh
    /\ last' = [Called("open", path, 0, 0, 0, 0, open_result(g, flags), 0)
                EXCEPT !.flags = flags]
Open(path, flags) ==
    /\ fh = {}
    /\ OpenDone(get_entry(Vol, path, clock), path, flags)
    /\ UNCHANGED <<clock, nops>>

\* the kernel closes a file: no release handler is registered, the handle
\* is only forgotten
Release(h) ==
    /\ fh' = fh \ {h}
    /\ UNCHANGED <<mapped_data_, free_blocks_, used_blocks_, dir_cache_, read_only_,
                   clock, nops, last>>

\* fuse_ops::read through an open handle: the bytes read_file returned
\* are copied to the caller's buffer and their number is returned
ReadDone(data, h, offset, size) ==
    last' = [Called("read", <<>>, h, offset, size, 0, Len(data),
                    get_actual_file_size(mapped_data_, h))
             EXCEPT !.data = data]
Read(h, offset, size) ==
    /\ ReadDone(read_file(mapped_data_, h, offset, size), h, offset, size)
    /\ UNCHANGED <<mapped_data_, free_blocks_, used_blocks_, dir_cache_,
                   read_only_, fh, clock, nops>>

\* a second passes
Tick ==
    /\ clock < Time0 + MaxClock
    /\ clock' = clock + 1
    /\ UNCHANGED <<mapped_data_, free_blocks_, used_blocks_, dir_cache_, read_only_,
                   fh, nops, last>>

Next ==
    \/ \E path \in CreatePaths : Create(path)
    \/ \E path \in MkdirPaths : Mkdir(path)
    \/ \E path \in Paths : Unlink(path)
    \/ \E path \in RmdirPaths : Rmdir(path)
    \/ \E path \in Paths, size \in TruncSizes : Truncate(path, size)
    \/ \E h \in fh, offset \in Offsets, size \in WriteSizes, pat \in Patterns :
           Write(h, offset, size, pat)
    \/ \E path \in Paths, flags \in AccModes : Open(path, flags)
    \/ \E h \in fh : Release(h)
    \/ Tick

\* the same calls, the writes at the near offsets only
NextFresh ==
    \/ \E path \in CreatePaths : Create(path)
    \/ \E path \in MkdirPaths : Mkdir(path)
    \/ \E path \in Paths : Unlink(path)
    \/ \E path \in RmdirPaths : Rmdir(path)
    \/ \E path \in Paths, size \in TruncSizes : Truncate(path, size)
    \/ \E h \in fh, offset \in NearOffsets, size \in WriteSizes, pat \in Patterns :
           Write(h, offset, size, pat)
    \/ \E path \in Paths, flags \in AccModes : Open(path, flags)
    \/ \E h \in fh : Release(h)
    \/ Tick

Spec == Init /\ [][Next]_vars
SpecFresh == InitFresh /\ [][NextFresh]_vars

\* The runs in which every call succeeds: no handler returns an error
\* code, and no write of bytes returns 0.
Succeeded == last.ret >= 0 /\ (last.op = "write" /\ last.size > 0 => last.ret > 0)
NextOk ==
    \/ \E path \in CreatePaths : Create(path) /\ Succeeded'
    \/ \E path \in MkdirPaths : Mkdir(path) /\ Succeeded'
    \/ \E path \in Paths : Unlink(path) /\ Succeeded'
    \/ \E path \in RmdirPaths : Rmdir(path) /\ Succeeded'
    \/ \E path \in Paths, size \in TruncSizes : Truncate(path, size) /\ Succeeded'
    \/ \E h \in fh, offset \in Offsets, size \in WriteSizes, pat \in Patterns :
           Write(h, offset, size, pat) /\ Succeeded'
    \/ \E path \in Paths, flags \in AccModes : Open(path, flags) /\ Succeeded'
    \/ \E h \in fh : Release(h)
    \/ Tick
SpecOk == Init /\ [][NextOk]_vars

FilePath == <<47, 97>>

\* Three files whose names fall into one bucket of the root: "/a", "/04"
\* and "/DP".  The image that is opened is a freshly formatted one on
\* which the three were created, in one of the six orders, and each given
\* CollideSize bytes of its own (filled: create_file, then write_file on
\* the header it made).
CollidePaths == {<<47, 97>>, <<47, 48, 52>>, <<47, 68, 80>>}
CollideOrders ==
    {o \in [1 .. 3 -> CollidePaths] : \A i, j \in 1 .. 3 : i # j => o[i] # o[j]}
FreshVol ==
    [disk |-> FreshImage, free |-> FreshFree,
     used |-> (0 .. (TotalBlocks - 1)) \ FreshFree,
     cache |-> EmptyCache, read_only |-> FALSE]
filled(r, path, pat) ==
    write_file(r.v, Resolve(r.v.disk, path), Buf(pat, CollideSize),
               CollideSize, 0, Time0).v
RECURSIVE CollideVol(_, _)
CollideVol(order, n) ==
    IF n = 0 THEN FreshVol
    ELSE filled(create_file(CollideVol(order, n - 1), order[n], Time0),
                order[n], n)
InitCollide ==
    /\ \E order \in CollideOrders : mapped_data_ = CollideVol(order, 3).disk
    /\ Opened
NextCollide ==
    \/ \E path \in CollidePaths : Unlink(path)
    \/ \E path \in CollidePaths : Create(path)
    \/ \E path \in CollidePaths : Open(path, O_RDWR)
    \/ \E h \in fh : Release(h)
    \/ Tick
SpecCollide == InitCollide /\ [][NextCollide]_vars

\* The same volumes with the name of one of the three headers (blocks 2,
\* 4 and 6) made empty: a header without a name at the head, in the middle
\* or at the end of the bucket's chain.
Nameless(d, block) ==
    SetBlk(d, block, update_checksum(BcplWrite(Blk(d, block), <<>>), 5))
InitBlank ==
    /\ \E order \in CollideOrders, block \in {2, 4, 6} :
           mapped_data_ = Nameless(CollideVol(order, 3).disk, block)
    /\ Opened
SpecBlank == InitBlank /\ [][NextCollide]_vars

\* Volumes filled with files until create returns -ENOSPC: the TailBlocks
\* free blocks of a formatted volume are taken by three empty files, by
\* one file of two data blocks, by a file of one data block and an empty
\* file, or by an empty file and a file whose write came to an end after
\* its first block.
TailVol ==
    [disk |-> TailImage, free |-> TailFree,
     used |-> (0 .. (TotalBlocks - 1)) \ TailFree,
     cache |-> EmptyCache, read_only |-> FALSE]
made(v, path) == create_file(v, path, Time0).v
stored(v, path, size) ==
    write_file(v, Resolve(v.disk, path), Buf(1, size), size, 0, Time0).v
FullVols ==
    {made(made(made(TailVol, <<47, 97>>), <<47, 65>>), <<47, 100>>),
     stored(made(TailVol, <<47, 97>>), <<47, 97>>, 500),
     made(stored(made(TailVol, <<47, 97>>), <<47, 97>>, 10), <<47, 65>>),
     stored(made(made(TailVol, <<47, 97>>), <<47, 65>>), <<47, 65>>, 500)}
InitFull == (\E v \in FullVols : mapped_data_ = v.disk) /\ Opened
NextFull ==
    \/ \E path \in Paths : Create(path)
    \/ \E path \in Paths : Unlink(path)
    \/ \E path \in Paths : Open(path, O_RDWR)
    \/ \E h \in fh : Release(h)
    \/ Tick
SpecFull == InitFull /\ [][NextFull]_vars

\* The volume is mounted at a host time of whole seconds between the Amiga
\* epoch and the last second a signed 32-bit time holds; the time stays
\* while files are made, written and listed.  Up to that second no product
\* of amiga_to_unix_time leaves the 32 bits of its uint32_t operands.
LastTime == (HALF \div 2 - 1) * HALF + (HALF - 1)
LastDay == (LastTime - AMIGA_EPOCH_OFFSET) \div (24 * 60 * 60)
TimeDays == {0, 1, 365, MountDay, LastDay - 1}
TimeSeconds == {0, 1, 49, 59, 60, 61, 3599, 3600, 43200, 86399}
HostTimes ==
    {AMIGA_EPOCH_OFFSET + day * 24 * 60 * 60 + s :
         day \in TimeDays, s \in TimeSeconds}
        \cup {LastTime - 1, LastTime}
InitTime ==
    /\ mapped_data_ = TailImage
    /\ parse_filesystem(mapped_data_)
    /\ Parsed(parse_bitmap(mapped_data_))
    /\ dir_cache_ = EmptyCache
    /\ fh = {}
    /\ clock \in HostTimes
    /\ last = NoCall
    /\ read_only_ = FALSE
    /\ nops = 0
NextTime ==
    \/ Create(FilePath)
    \/ Mkdir(<<47, 100>>)
    \/ Open(FilePath, O_RDWR)
    \/ \E h \in fh : Write(h, 0, 10, 1)
    \/ \E h \in fh : Release(h)
SpecTime == InitTime /\ [][NextTime]_vars

\* Volumes on which allocate_block is called with a free set of all the
\* tail blocks, with an empty free set, and with a root that names no
\* bitmap page (bm_pages[0] = 0: every block from 2 on but the root is
\* free after parse_bitmap, and none can be marked).
NoPageImage ==
    [TailImage EXCEPT ![ROOT_BLOCK] = update_checksum([@ EXCEPT ![79] = 0], 5)]
InitAlloc ==
    /\ \/ mapped_data_ \in {TailImage, NoPageImage}
       \/ \E v \in FullVols : mapped_data_ = v.disk
    /\ Opened
SpecAlloc == InitAlloc /\ [][NextFull]_vars

\* A formatted volume, and one whose bitmap page has the bits of the boot
\* blocks, of the root and of the page itself SET as if they were free.
LooseImage == FormattedImage(TailFree \cup {0, 1, ROOT_BLOCK, ROOT_BLOCK + 1}, Time0)
InitSystem == mapped_data_ \in {TailImage, LooseImage} /\ Opened
SpecSystem == InitSystem /\ [][Next]_vars

\* AdfImage::open on an image file of file_size bytes holding d, before the
\* bitmap is parsed.  in_file is get_block's answer for a block number.
in_file(file_size, b) ==
    file_size >= 2 * BLOCK_SIZE /\ (b + 1) * BLOCK_SIZE <= file_size
\* a faulty parse_filesystem: the DOS type of the boot block must match
open_image_dos(d, file_size) ==
    /\ in_file(file_size, 0) /\ in_file(file_size, ROOT_BLOCK)
    /\ Blk(d, 0)[0] \div 256 = 1146049280 \div 256
    /\ Blk(d, ROOT_BLOCK)[0] = T_HEADER
    /\ Blk(d, ROOT_BLOCK)[127] \in {ST_ROOT, 0}
open_image(d, file_size) ==
    /\ in_file(file_size, 0) /\ in_file(file_size, ROOT_BLOCK)
    /\ Blk(d, ROOT_BLOCK)[0] = T_HEADER
    /\ Blk(d, ROOT_BLOCK)[127] \in {ST_ROOT, 0}

\* Image files to open: the formatted volume with a DOS type, a root
\* pointer of the boot block, a type and a sec_type of the root block, in
\* a file of the volume's size or one cut short at or before the root.
DosTypes == {1146049280, 1146049281, 1263092555, 0}
BootRoots == {ROOT_BLOCK, 0, ROOT_BLOCK + 2}
RootTypes == {T_HEADER, 0, T_DATA}
RootSecTypes == {ST_ROOT, 0, ST_DIR, ST_FILE}
WholeSize == TotalBlocks * BLOCK_SIZE
FileSizes ==
    {0, BLOCK_SIZE, 2 * BLOCK_SIZE, ROOT_BLOCK * BLOCK_SIZE,
     (ROOT_BLOCK + 1) * BLOCK_SIZE - 1, WholeSize}
MountImage(dos, ptr, type, sec) ==
    [TailImage EXCEPT
        ![0] = [w \in Words |-> IF w = 0 THEN dos ELSE IF w = 2 THEN ptr ELSE 0],
        ![ROOT_BLOCK] = update_checksum([@ EXCEPT ![0] = type, ![127] = sec], 5)]
InitMount ==
    /\ \E dos \in DosTypes, ptr \in BootRoots, type \in RootTypes,
          sec \in RootSecTypes :
           mapped_data_ = MountImage(dos, ptr, type, sec)
    /\ \E file_size \in FileSizes :
           last = [NoCall EXCEPT !.op = "mount", !.size = file_size, !.ret = -1]
    /\ free_blocks_ = {} /\ used_blocks_ = {}
    /\ dir_cache_ = EmptyCache /\ read_only_ = FALSE
    /\ fh = {} /\ clock = Time0 /\ nops = 0
\* main: image.open(); a file that open accepts has the volume's size here
Mount ==
    /\ nops = 0 /\ last.op = "mount"
    /\ nops' = 1
    /\ IF open_image(mapped_data_, last.size) /\ last.size = WholeSize
       THEN /\ last' = [last EXCEPT !.ret = 0]
            /\ free_blocks_' = parse_bitmap(mapped_data_).free
            /\ used_blocks_' = parse_bitmap(mapped_data_).used
       ELSE /\ last' = [last EXCEPT !.ret = -1]
            /\ UNCHANGED <<free_blocks_, used_blocks_>>
    /\ UNCHANGED <<mapped_data_, dir_cache_, read_only_, fh, clock>>
SpecMount == InitMount /\ [][Mount]_vars

\* One file "/a" of FileBytes bytes in two data blocks on a freshly
\* formatted volume, then truncated, written and read through a handle.
FileBytes == 500
FileVol ==
    write_file(create_file(FreshVol, FilePath, Time0).v,
               Resolve(create_file(FreshVol, FilePath, Time0).v.disk, FilePath),
               Buf(2, FileBytes), FileBytes, 0, Time0).v
ReadOffsets == {0, 480, 1000}
ReadSizes == {20, 600}
InitFile == mapped_data_ = FileVol.disk /\ Opened
NextFile ==
    \/ \E size \in TruncSizes : Truncate(FilePath, size)
    \/ \E h \in fh, offset \in NearOffsets, size \in WriteSizes, pat \in Patterns :
           Write(h, offset, size, pat)
    \/ \E h \in fh, offset \in ReadOffsets, size \in ReadSizes : Read(h, offset, size)
    \/ Open(FilePath, O_RDWR)
    \/ \E h \in fh : Release(h)
SpecFile == InitFile /\ [][NextFile]_vars

\* Two files in one bucket of the root of a freshly formatted volume:
\* "/a" of FileBytes bytes in two data blocks and "/04" of CollideSize
\* bytes; either is opened, written, truncated and unlinked.
PairPaths == {FilePath, <<47, 48, 52>>}
PairVol ==
    stored(made(stored(made(FreshVol, FilePath), FilePath, FileBytes),
                <<47, 48, 52>>),
           <<47, 48, 52>>, CollideSize)
InitPair == mapped_data_ = PairVol.disk /\ Opened
NextPair ==
    \/ \E path \in PairPaths : Open(path, O_RDWR)
    \/ \E h \in fh, offset \in NearOffsets, size \in WriteSizes, pat \in Patterns :
           Write(h, offset, size, pat)
    \/ \E path \in PairPaths, size \in TruncSizes : Truncate(path, size)
    \/ \E path \in PairPaths : Unlink(path)
    \/ \E h \in fh : Release(h)
SpecPair == InitPair /\ [][NextPair]_vars

\* Images whose bitmap page disagrees with the directory tree: the volume
\* with the two files (headers 2 and 5, data blocks 3, 4 and 6), the bits
\* of the blocks of S SET in the bitmap page as if they were free and the
\* bits of the other blocks of StaleBits CLEAR as if they were used.
RECURSIVE Marked(_, _, _)
Marked(d, S, is_free) ==
    IF S = {} THEN d
    ELSE Marked(update_bitmap_for_block(d, Min(S), is_free), S \ {Min(S)}, is_free)
MarkedFree(d, S) == Marked(d, S, TRUE)
StaleBits == 2 .. 8
InitScan ==
    /\ \E S \in SUBSET StaleBits :
           mapped_data_ = Marked(MarkedFree(PairVol.disk, S), StaleBits \ S, FALSE)
    /\ last = [NoCall EXCEPT !.op = "mount", !.size = WholeSize, !.ret = -1]
    /\ free_blocks_ = {} /\ used_blocks_ = {}
    /\ dir_cache_ = EmptyCache /\ read_only_ = FALSE
    /\ fh = {} /\ clock = Time0 /\ nops = 0
SpecScan == InitScan /\ [][Mount]_vars

\* open, step by step: parse_bitmap and scan_used_blocks as the loops and
\* calls they are made of.  last.stack holds the frames of the calls in
\* progress, the innermost last: pc "bitmap" is parse_bitmap before its
\* walk, "slots" a loop over 72 hash slots at index i, "enter" the start of
\* scan_used_blocks(block), "data" its while loop at data_block, "chain"
\* its call for hash_chain.
Frame(pc, block, i, data_block) ==
    [pc |-> pc, block |-> block, i |-> i, data_block |-> data_block]
Scanning(stack) == [op |-> "mount", ret |-> -1, stack |-> stack]
Top == last.stack[Len(last.stack)]
Rest == SubSeq(last.stack, 1, Len(last.stack) - 1)
InScan(pc) ==
    /\ last.op = "mount" /\ last.ret = -1 /\ nops = 0
    /\ last.stack # <<>> /\ Top.pc = pc
Goes(fu, stack) ==
    /\ free_blocks_' = fu.free /\ used_blocks_' = fu.used
    /\ last' = Scanning(stack)
    /\ UNCHANGED <<mapped_data_, dir_cache_, read_only_, fh, clock, nops>>
Sets == [free |-> free_blocks_, used |-> used_blocks_]
\* parse_bitmap up to its walk of the root's hash table
ParsePages ==
    /\ InScan("bitmap")
    /\ Goes(MarkUsed(parse_pages(mapped_data_, 0,
                         [free |-> 2 .. (TotalBlocks - 1), used |-> {0, 1}]),
                     ROOT_BLOCK),
            <<Frame("slots", ROOT_BLOCK, 0, 0)>>)
\* one round of a loop over the 72 slots: the next slot that is not zero
\* is scanned; after the last one parse_bitmap returns and
\* scan_used_blocks goes on to the hash_chain
ScanSlots ==
    /\ InScan("slots")
    /\ IF NonZeroSlots(mapped_data_, Top.block, Top.i) # {}
       THEN LET j == Min(NonZeroSlots(mapped_data_, Top.block, Top.i))
            IN  Goes(Sets, Rest \o <<Frame("slots", Top.block, j + 1, 0),
                                     Frame("enter", Blk(mapped_data_, Top.block)[6 + j], 0, 0)>>)
       ELSE IF Len(last.stack) = 1
       THEN /\ last' = [op |-> "mount", ret |-> 0, stack |-> <<>>]
            /\ nops' = 1
            /\ UNCHANGED <<mapped_data_, free_blocks_, used_blocks_, dir_cache_,
                           read_only_, fh, clock>>
       ELSE Goes(Sets, Rest \o <<Frame("chain", Top.block, 0, 0)>>)
\* scan_used_blocks(block) from its first line to the loop it enters
ScanEnter ==
    /\ InScan("enter")
    /\ IF Top.block = 0 \/ Top.block \in used_blocks_ THEN Goes(Sets, Rest)
       ELSE IF ~InImage(Top.block) THEN Goes(MarkUsed(Sets, Top.block), Rest)
       ELSE IF Blk(mapped_data_, Top.block)[127] \in {ST_ROOT, 0, ST_DIR}
       THEN Goes(MarkUsed(Sets, Top.block),
                 Rest \o <<Frame("slots", Top.block, 0, 0)>>)
       ELSE IF Blk(mapped_data_, Top.block)[127] = ST_FILE
       THEN Goes(MarkUsed(Sets, Top.block),
                 Rest \o <<Frame("data", Top.block, 0,
                                 Blk(mapped_data_, Top.block)[4])>>)
       ELSE Goes(MarkUsed(Sets, Top.block),
                 Rest \o <<Frame("chain", Top.block, 0, 0)>>)
\* one round of while (data_block != 0)
ScanData ==
    /\ InScan("data")
    /\ IF Top.data_block = 0
       THEN Goes(Sets, Rest \o <<Frame("chain", Top.block, 0, 0)>>)
       ELSE IF ~InImage(Top.data_block)
       THEN Goes(MarkUsed(Sets, Top.data_block),
                 Rest \o <<Frame("chain", Top.block, 0, 0)>>)
       ELSE Goes(MarkUsed(Sets, Top.data_block),
                 Rest \o <<Frame("data", Top.block, 0,
                                 Blk(mapped_data_, Top.data_block)[4])>>)
\* "Scan chain": the call for hash_chain, after which the frame returns
ScanChain ==
    /\ InScan("chain")
    /\ IF Blk(mapped_data_, Top.block)[124] # 0
       THEN Goes(Sets, Rest \o <<Frame("enter", Blk(mapped_data_, Top.block)[124], 0, 0)>>)
       ELSE Goes(Sets, Rest)
NextOpen == ParsePages \/ ScanSlots \/ ScanEnter \/ ScanData \/ ScanChain

\* Images to open: the volume with the two files and a directory "/d"
\* (header 7), intact or with one pointer bent into a cycle, and the bits
\* of some of its blocks SET in the bitmap page.
DirVol == create_directory(PairVol, <<47, 100>>, Time0).v
Bent(d, block, w, to) == Cksum(SetWord(d, block, w, to), block)
BentImages ==
    {DirVol.disk,
     Bent(DirVol.disk, 4, 4, 3),
     Bent(DirVol.disk, 2, 124, 2), Bent(DirVol.disk, 2, 124, 5),
     Bent(DirVol.disk, 7, 6, 7), Bent(DirVol.disk, 7, 6, ROOT_BLOCK)}
BentBits == {2, 3, 5, 7}
InitOpen ==
    /\ \E d \in BentImages, S \in SUBSET BentBits : mapped_data_ = MarkedFree(d, S)
    /\ last = Scanning(<<Frame("bitmap", 0, 0, 0)>>)
    /\ free_blocks_ = {} /\ used_blocks_ = {}
    /\ dir_cache_ = EmptyCache /\ read_only_ = FALSE
    /\ fh = {} /\ clock = Time0 /\ nops = 0
\* the process runs on until open returns
SpecOpen == InitOpen /\ [][NextOpen]_vars /\ WF_vars(NextOpen)

\* The volume with the file "/a" mounted with hard_remove: the file is
\* opened, unlinked while open, a directory is made, and the handle is
\* written through.
NextStale ==
    \/ Open(FilePath, O_RDWR)
    \/ HardRemove(FilePath)
    \/ Mkdir(<<47, 100>>)
    \/ \E h \in fh, offset \in NearOffsets, size \in WriteSizes, pat \in Patterns :
           Write(h, offset, size, pat)
    \/ \E h \in fh : Release(h)
    \/ Tick
SpecStale == InitFile /\ [][NextStale]_vars

\* An image that cannot be opened for writing: AdfImage::open falls back
\* to O_RDONLY and sets read_only_.  The image is a freshly formatted one
\* on which "/a" was created and given CollideSize bytes and "/d" was made.
ReadOnlyVol ==
    create_directory(
        filled(create_file(FreshVol, <<47, 97>>, Time0), <<47, 97>>, 1),
        <<47, 100>>, Time0).v
InitReadOnly ==
    /\ mapped_data_ = ReadOnlyVol.disk
    /\ Mounted
    /\ read_only_ = TRUE
    /\ nops = 0
SpecReadOnly == InitReadOnly /\ [][Next]_vars

\* An image with a header that has an empty name: a freshly formatted one
\* on which "/d" was made and create_file was called with the path "/d/"
\* (the name after the last slash is empty; the header goes into slot 0
\* of "/d").
NamelessVol ==
    create_file(create_directory(FreshVol, <<47, 100>>, Time0).v,
                <<47, 100, 47>>, Time0).v
InitNameless == mapped_data_ = NamelessVol.disk /\ Opened
NextNameless ==
    \/ \E path \in CreatePaths : Create(path)
    \/ \E path \in MkdirPaths : Mkdir(path)
    \/ \E path \in Paths : Unlink(path)
    \/ \E path \in RmdirPaths : Rmdir(path)
    \/ \E h \in fh : Release(h)
    \/ Tick
SpecNameless == InitNameless /\ [][NextNameless]_vars

\* ------------------------------------------------------------ live structures
\* the blocks the hash table of block b names
SlotTargets(d, b) == {Blk(d, b)[6 + i] : i \in NonZeroSlots(d, b, 0)}

\* the headers a header b of the tree leads to: the heads of its hash
\* table when it is the root or a directory, and its hash_chain
HeaderSucc(d, b) ==
    IF ~InImage(b) THEN {}
    ELSE (IF Blk(d, b)[127] \in {ST_ROOT, ST_DIR} THEN SlotTargets(d, b) ELSE {})
         \cup (IF b # ROOT_BLOCK /\ Blk(d, b)[124] # 0 THEN {Blk(d, b)[124]} ELSE {})

\* the headers reachable from the root by directory traversal
RECURSIVE HeaderClosure(_, _)
HeaderClosure(d, S) ==
    IF UNION {HeaderSucc(d, b) : b \in S} \subseteq S THEN S
    ELSE HeaderClosure(d, S \cup UNION {HeaderSucc(d, b) : b \in S})
LiveHeaders(d) == HeaderClosure(d, {ROOT_BLOCK})
LiveFiles(d) == {b \in LiveHeaders(d) : InImage(b) /\ Blk(d, b)[127] = ST_FILE}
LiveDirs(d) ==
    {b \in LiveHeaders(d) : InImage(b) /\ Blk(d, b)[127] \in {ST_ROOT, ST_DIR}}

\* the data blocks reachable from first_data of file header f by next_data
RECURSIVE DataClosure(_, _)
DataClosure(d, S) ==
    IF {Blk(d, b)[4] : b \in {x \in S : InImage(x)}} \ {0} \subseteq S THEN S
    ELSE DataClosure(d, S \cup ({Blk(d, b)[4] : b \in {x \in S : InImage(x)}} \ {0}))
DataBlocksOf(d, f) ==
    IF Blk(d, f)[4] = 0 THEN {} ELSE DataClosure(d, {Blk(d, f)[4]})
LiveData(d) == UNION {DataBlocksOf(d, f) : f \in LiveFiles(d)}

\* the bitmap pages the root names
BitmapPages(d) == {Blk(d, ROOT_BLOCK)[79 + i] : i \in 0 .. (BM_PAGES - 1)} \ {0}

\* do the 128 words of a block sum to 0 mod 2^32
ValidSum(blk) == SumHalves(blk, -1) = <<0, 0>>

\* the bitmap bit of block b
BitmapBit(d, b) ==
    TestBit(Blk(d, Blk(d, ROOT_BLOCK)[79 + (b \div BITMAP_SPAN)])
                [1 + ((b % BITMAP_SPAN) \div 32)],
            b % 32)
\* the blocks from 2 on that a bitmap page covers
Covered(d) ==
    {b \in 2 .. (TotalBlocks - 1) :
        /\ b \div BITMAP_SPAN < BM_PAGES
        /\ InImage(Blk(d, ROOT_BLOCK)[79 + (b \div BITMAP_SPAN)])
        /\ Blk(d, ROOT_BLOCK)[79 + (b \div BITMAP_SPAN)] # 0}

\* ------------------------------------------------------------ claims
\* C1: after open and after any sequence of create, mkdir, write, truncate,
\* unlink and rmdir calls, failed and partial ones included, every root,
\* directory, file-header and data block reachable from the root has a
\* valid checksum at word 5, and every bitmap page one at word 0.
C1_ChecksumsValid ==
    /\ \A b \in LiveHeaders(mapped_data_) \cup LiveData(mapped_data_) :
           InImage(b) => ValidSum(Blk(mapped_data_, b))
    /\ \A b \in BitmapPages(mapped_data_) :
           InImage(b) => ValidSum(Blk(mapped_data_, b))

Referenced(d) ==
    (LiveHeaders(d) \ {ROOT_BLOCK}) \cup LiveData(d) \cup BitmapPages(d)

\* C4: every block referenced from a live structure is in the used set
\* and not in the free set.
C4_ReferencedUsed ==
    \A b \in Referenced(mapped_data_) : b \in used_blocks_ /\ b \notin free_blocks_
\* a truncate has cut a two-block chain and freed its second block
C4_Witness ==
    /\ last.op = "truncate" /\ last.ret = 0
    /\ last.old_size > DATA_BYTES /\ last.size <= DATA_BYTES /\ last.size > 0
    /\ Cardinality(DataBlocksOf(mapped_data_, last.h)) = 1
    /\ free_blocks_ # {}

\* C5: from a freshly formatted image on, every block that is not
\* reachable from the root by directory traversal and data chains, and is
\* not block 0, block 1, the root or a bitmap page, has its bitmap bit SET
\* and is in the free set.
C5_NoLeak ==
    \A b \in (2 .. (TotalBlocks - 1)) \
             (LiveHeaders(mapped_data_) \cup LiveData(mapped_data_)
              \cup BitmapPages(mapped_data_)) :
        BitmapBit(mapped_data_, b) /\ b \in free_blocks_
\* a file that held data has been unlinked and the volume is empty again
C5_Witness ==
    /\ last.op = "unlink" /\ last.ret = 0 /\ last.old_size > 0
    /\ LiveHeaders(mapped_data_) = {ROOT_BLOCK}
    /\ free_blocks_ = FreshFree

\* is the hash chain from header b well-formed for the given slot: live
\* headers (in the image, in the used set, of type T_HEADER) whose names
\* hash to the slot, none met twice, ended by 0
RECURSIVE ChainOk(_, _, _, _)
ChainOk(d, b, slot, seen) ==
    \/ b = 0
    \/ /\ b \notin seen
       /\ InImage(b)
       /\ b \in used_blocks_
       /\ Blk(d, b)[0] = T_HEADER
       /\ Blk(d, b)[127] \in {ST_FILE, ST_DIR}
       /\ hash_name(BcplRead(Blk(d, b), 432)) = slot
       /\ ChainOk(d, Blk(d, b)[124], slot, seen \cup {b})

\* C6: in every directory, the root included, each of the 72 hash slots
\* holds 0 or a live header whose name hashes to that slot, every header
\* on the hash_chain from it hashes to that slot too, and every chain is
\* acyclic and ended by 0.
C6_HashChains ==
    \A dir \in LiveDirs(mapped_data_) :
        \A i \in 0 .. (HASH_TABLE_SIZE - 1) :
            ChainOk(mapped_data_, Blk(mapped_data_, dir)[6 + i], i, {})
\* two names share a bucket: a create has made the chain of a root slot
\* two headers long
C6_Witness ==
    /\ \E i \in NonZeroSlots(mapped_data_, ROOT_BLOCK, 0) :
           Blk(mapped_data_, Blk(mapped_data_, ROOT_BLOCK)[6 + i])[124] # 0
    /\ last.op = "create" /\ last.ret = 0

\* the data chain of file header f as the sequence of its blocks
RECURSIVE ChainSeq(_, _, _)
ChainSeq(d, b, seen) ==
    IF b = 0 \/ b \in seen \/ ~InImage(b) THEN <<>>
    ELSE <<b>> \o ChainSeq(d, Blk(d, b)[4], seen \cup {b})
DataChain(d, f) == ChainSeq(d, Blk(d, f)[4], {})

\* the shape C7 asks of a chain for a file of N bytes
ChainShape(d, chain, N) ==
    /\ Len(chain) = (N + DATA_BYTES - 1) \div DATA_BYTES
    /\ \A k \in 1 .. (Len(chain) - 1) : Blk(d, chain[k])[3] = DATA_BYTES
    /\ Len(chain) > 0 =>
           Blk(d, chain[Len(chain)])[3] =
               (IF N % DATA_BYTES = 0 THEN DATA_BYTES ELSE N % DATA_BYTES)

\* C7: for every file header, if its file_size is N its data chain has
\* exactly ceil(N/488) blocks, every non-terminal block has data_size 488
\* and the terminal block has data_size N mod 488 (488 when N is a
\* nonzero multiple of 488).
C7_ChainMatchesSize ==
    \A f \in LiveFiles(mapped_data_) :
        ChainShape(mapped_data_, DataChain(mapped_data_, f), Blk(mapped_data_, f)[81])

\* C8: for a file of size N and offset + length <= N, after a write of
\* length bytes at offset returns length, a read of length bytes at
\* offset returns exactly the bytes written.
C8_RoundTripInside ==
    (/\ last.op = "write"
     /\ last.ret = last.size
     /\ last.offset + last.size <= last.old_size)
    => read_file(mapped_data_, last.h, last.offset, last.size)
           = Buf(last.pat, last.size)

\* C9: for a file of size S and a write of n > 0 bytes at an offset > S
\* whose allocations succeed, the write returns n, the file size becomes
\* offset + n, a read of [S, offset) returns only zero bytes and a read of
\* [offset, offset + n) returns exactly the bytes written.
C9_WritePastEnd ==
    (/\ last.op = "write"
     /\ last.size > 0
     /\ last.offset > last.old_size
     /\ last.ret = last.size)
    => /\ get_actual_file_size(mapped_data_, last.h) = last.offset + last.size
       /\ read_file(mapped_data_, last.h, last.old_size, last.offset - last.old_size)
              = Zeros(last.offset - last.old_size)
       /\ read_file(mapped_data_, last.h, last.offset, last.size)
              = Buf(last.pat, last.size)

\* the same truncate applied once more, now
TruncateAgain == truncate_file(Vol, last.path, last.size, clock)

\* C10: truncate(f, k) applied twice leaves the volume (file size, data
\* chain, data_size fields, free and used sets, bitmap) as applying it once.
C10_TruncateIdempotent ==
    (last.op = "truncate" /\ last.ret = 0)
    => /\ TruncateAgain.ret = 0
       /\ TruncateAgain.v.disk = mapped_data_
       /\ TruncateAgain.v.free = free_blocks_
       /\ TruncateAgain.v.used = used_blocks_
\* a truncate has shortened a file and freed a block, and time has passed
C10_Witness ==
    /\ last.op = "truncate" /\ last.ret = 0
    /\ last.old_size > DATA_BYTES /\ last.size < last.old_size
    /\ free_blocks_ # {}
    /\ clock > Time0

\* a step of the create handler that returned 0, and what an unlink of
\* the same path called right after it, at time now, returns
CreateStep == nops' = nops + 1 /\ last'.op = "create" /\ last'.ret = 0
UnlinkNext(now) == delete_file(Vol', last'.path, now)
\* a root block without its modified timestamp and its checksum
RootBody(blk) == [blk EXCEPT ![5] = 0, ![105] = 0, ![106] = 0, ![107] = 0]

\* C11 as stated: after create(path) immediately followed by unlink(path),
\* both succeeding, the free set, the used set and the root block checksum
\* are what they were before the create.
C11_CreateUnlinkChecksum ==
    [][CreateStep /\ UnlinkNext(clock').ret = 0 =>
          /\ UnlinkNext(clock').v.free = free_blocks_
          /\ UnlinkNext(clock').v.used = used_blocks_
          /\ Blk(UnlinkNext(clock').v.disk, ROOT_BLOCK)[5]
                 = Blk(mapped_data_, ROOT_BLOCK)[5]]_vars

\* C11 amended: after create(path) immediately followed by unlink(path),
\* both succeeding, the free set and the used set are what they were
\* before the create, and so is the root block apart from its modified
\* timestamp and its checksum.
C11_CreateUnlinkRestores ==
    [][CreateStep =>
          \A now \in {clock', clock' + 1} :
              UnlinkNext(now).ret = 0 =>
                  /\ UnlinkNext(now).v.free = free_blocks_
                  /\ UnlinkNext(now).v.used = used_blocks_
                  /\ RootBody(Blk(UnlinkNext(now).v.disk, ROOT_BLOCK))
                         = RootBody(Blk(mapped_data_, ROOT_BLOCK))]_vars
\* a file has just been created in the root, later than the root was last
\* modified, next to another file, and an unlink of it succeeds
C11_Witness ==
    /\ last.op = "create" /\ last.ret = 0
    /\ ParentPath(last.path) = RootPath
    /\ clock > Time0
    /\ Cardinality(LiveFiles(mapped_data_)) = 2
    /\ delete_file(Vol, last.path, clock).ret = 0

\* the paths that name a directory in the image, and the path of a name
\* in a directory
IsDirPath(d, path) ==
    /\ Resolve(d, path) # 0
    /\ Blk(d, Resolve(d, path))[127] # ST_FILE
DirsNow == {path \in Paths \cup {RootPath} : IsDirPath(mapped_data_, path)}
JoinPath(dir, name) == IF dir = RootPath THEN dir \o name ELSE dir \o <<SLASH>> \o name

\* get_entry returned g for a listed entry e: found, at the same header
SameHeader(g, e) == g.ok /\ g.entry.block_num = e.block_num
NoTwoAlike(es) ==
    \A i, j \in 1 .. Len(es) : i # j => es[i].name # es[j].name
ListedResolve(dir, es) ==
    \A i \in 1 .. Len(es) :
        SameHeader(get_entry(Vol, JoinPath(dir, es[i].name), clock), es[i])

\* C12: after any sequence of operations, the listing of any directory has
\* no two entries of the same name, and get_entry on dir/name returns the
\* header block number of the listed entry, for every listed entry.
C12_ListingResolves ==
    \A dir \in DirsNow :
        /\ list_directory(Vol, dir, clock).ok
        /\ NoTwoAlike(list_directory(Vol, dir, clock).entries)
        /\ ListedResolve(dir, list_directory(Vol, dir, clock).entries)
\* the root lists two names of one bucket and a directory, out of the
\* cache that an earlier lookup filled
C12_Witness ==
    /\ Len(list_directory(Vol, RootPath, clock).entries) = 3
    /\ Blk(mapped_data_, ROOT_BLOCK)[6 + hash_name(<<97>>)] # 0
    /\ Blk(mapped_data_, Blk(mapped_data_, ROOT_BLOCK)[6 + hash_name(<<97>>)])[124] # 0
    /\ DirsNow # {RootPath}
    /\ RootPath \in DOMAIN dir_cache_

\* the names the root lists, the volume after a step, and what a file
\* holds
NamesOf(es) == {es[i].name : i \in 1 .. Len(es)}
RootNames(v) == NamesOf(list_directory(v, RootPath, clock).entries)
VolNext == [disk |-> mapped_data_', free |-> free_blocks_', used |-> used_blocks_',
            cache |-> dir_cache_', read_only |-> read_only_']
Content(d, blk) == read_file(d, blk, 0, get_actual_file_size(d, blk))
CollideNames == {LastName(path) : path \in CollidePaths}
CollideSlot == 6 + hash_name(<<97>>)
\* a step of the unlink handler that returned 0
UnlinkStep == nops' = nops + 1 /\ last'.op = "unlink" /\ last'.ret = 0
\* the file at path, there before the step, is after it still listed,
\* found at the same header, of the same size and content
StillThere(path) ==
    /\ LastName(path) \in RootNames(VolNext)
    /\ get_entry(VolNext, path, clock).ok
    /\ get_entry(VolNext, path, clock).entry.block_num = Resolve(mapped_data_, path)
    /\ get_entry(VolNext, path, clock).entry.size
           = get_actual_file_size(mapped_data_, Resolve(mapped_data_, path))
    /\ Content(mapped_data_', Resolve(mapped_data_, path))
           = Content(mapped_data_, Resolve(mapped_data_, path))
ExactlyGone(path) ==
    /\ RootNames(VolNext) = RootNames(Vol) \ {LastName(path)}
    /\ ~get_entry(VolNext, path, clock).ok
    /\ \A other \in CollidePaths \ {path} :
           Resolve(mapped_data_, other) # 0 => StillThere(other)
    /\ RootNames(VolNext) = {} => Blk(mapped_data_', ROOT_BLOCK)[CollideSlot] = 0

\* C13: three names of one bucket, created in one directory in any order,
\* are all listed; in every order of unlinking them, each unlink removes
\* exactly the named entry, the entries not yet unlinked stay listed,
\* resolvable and of unchanged content, and the bucket is empty at the end.
C13_Collisions ==
    /\ [](nops = 0 => /\ RootNames(Vol) = CollideNames
                      /\ \A path \in CollidePaths :
                             Len(Content(mapped_data_, Resolve(mapped_data_, path)))
                                 = CollideSize)
    /\ [][UnlinkStep => ExactlyGone(last'.path)]_vars
    /\ [][CreateStep => RootNames(VolNext) = RootNames(Vol) \cup {LastName(last'.path)}]_vars
\* the third of the three has been unlinked and the bucket is empty
C13_Witness ==
    /\ last.op = "unlink" /\ last.ret = 0 /\ last.old_size = CollideSize
    /\ nops = 3
    /\ RootNames(Vol) = {}
    /\ Blk(mapped_data_, ROOT_BLOCK)[CollideSlot] = 0

\* the image, the free set and the used set are what they were when the
\* read-only volume was opened, and the last call, if it was one of
\* write, create, unlink, truncate, mkdir and rmdir, returned -EROFS
ReadOnlyKept ==
    /\ read_only_
    /\ mapped_data_ = ReadOnlyVol.disk
    /\ free_blocks_ = ReadOnlyVol.free
    /\ used_blocks_ = ReadOnlyVol.used
    /\ last.op \in {"write", "create", "unlink", "truncate", "mkdir", "rmdir"}
           => last.ret = -EROFS

\* C14 as stated: on a read-only volume write, create, unlink, truncate,
\* mkdir, rmdir and every open with a write access mode return -EROFS, and
\* the image, the free set and the used set are unchanged.
C14_ReadOnlyEveryOpen ==
    /\ ReadOnlyKept
    /\ (last.op = "open" /\ last.path # <<>> /\ last.flags # O_RDONLY)
           => last.ret = -EROFS

\* C14 amended: on a read-only volume write, create, unlink, truncate,
\* mkdir and rmdir return -EROFS, and so does an open with a write access
\* mode of a path that names a file (a path that names nothing gets
\* -ENOENT and a directory -EISDIR); the image, the free set and the used
\* set are unchanged.
C14_ReadOnly ==
    /\ ReadOnlyKept
    /\ (last.op = "open" /\ last.path # <<>> /\ last.flags # O_RDONLY
        /\ Resolve(mapped_data_, last.path) = 0) => last.ret = -ENOENT
    /\ (last.op = "open" /\ last.path # <<>> /\ last.flags # O_RDONLY
        /\ IsDirPath(mapped_data_, last.path)) => last.ret = -EISDIR
    /\ (/\ last.op = "open" /\ last.path # <<>>
        /\ last.flags # O_RDONLY
        /\ Resolve(mapped_data_, last.path) # 0
        /\ ~IsDirPath(mapped_data_, last.path)) => last.ret = -EROFS /\ fh = {}
\* after three calls that would have changed a writable volume, the file
\* has been opened for reading and writing
C14_Witness ==
    /\ read_only_
    /\ nops = MaxOps
    /\ last.op = "open" /\ last.flags = O_RDWR /\ last.ret = -EROFS
    /\ free_blocks_ # {}

\* a step of the create or of the mkdir handler
MakeStep == nops' = nops + 1 /\ last'.op \in {"create", "mkdir"}
\* what create and mkdir of path are to return, from the image and the
\* free set before the call
MakeCode(path) ==
    IF Len(LastName(path)) > BCPL_STRING_MAX THEN -ENAMETOOLONG
    ELSE IF Resolve(mapped_data_, path) # 0 THEN -EEXIST
    ELSE IF ~IsDirPath(mapped_data_, ParentPath(path)) THEN -ENOENT
    ELSE IF free_blocks_ = {} THEN -ENOSPC
    ELSE 0
\* the entry e is what a successful create (an empty file) or mkdir (a
\* directory of 72 empty slots) of that name leaves in the listing
MadeEntry(e, op, name) ==
    /\ e.name = name
    /\ op = "create" => ~e.is_directory /\ e.size = 0
    /\ op = "mkdir" =>
           /\ e.is_directory
           /\ \A slot \in 0 .. (HASH_TABLE_SIZE - 1) :
                  Blk(mapped_data_', e.block_num)[6 + slot] = 0
MadeListed(es, op, name) ==
    \E i \in 1 .. Len(es) : MadeEntry(es[i], op, name)

\* C15: create and mkdir return -ENAMETOOLONG when the last name of the
\* path is longer than 30 bytes, else -EEXIST when that exact name is in
\* the parent, else -ENOENT when the parent path names no directory, else
\* -ENOSPC when no block can be allocated, else 0, and then the parent
\* lists the new entry: a file of size 0, or a directory whose 72 hash
\* slots are all zero.
C15_CreateOutcome ==
    [][MakeStep =>
          /\ last'.ret = MakeCode(last'.path)
          /\ last'.ret = 0 =>
                 MadeListed(list_directory(VolNext, ParentPath(last'.path),
                                           clock).entries,
                            last'.op, LastName(last'.path))]_vars
\* a create found the volume full: the name is new and its parent exists
C15_Witness ==
    /\ last.op = "create" /\ last.ret = -ENOSPC
    /\ free_blocks_ = {}
    /\ Resolve(mapped_data_, last.path) = 0
    /\ IsDirPath(mapped_data_, ParentPath(last.path))

\* a step of create, mkdir, unlink, rmdir or truncate that returned an
\* error code
FailedStep ==
    /\ nops' = nops + 1
    /\ last'.op \in {"create", "mkdir", "unlink", "rmdir", "truncate"}
    /\ last'.ret < 0

\* C16: when create, mkdir, unlink, rmdir or truncate returns a negative
\* error code, every block of the image (the bitmap with it), the free
\* set and the used set are what they were before the call.
C16_FailureKeepsVolume ==
    [][FailedStep =>
          /\ mapped_data_' = mapped_data_
          /\ free_blocks_' = free_blocks_
          /\ used_blocks_' = used_blocks_]_vars
\* a directory that holds a file was not removed
C16_Witness ==
    /\ last.op = "rmdir" /\ last.ret = -ENOTEMPTY
    /\ Cardinality(LiveHeaders(mapped_data_)) = 3

\* a step of the unlink handler
UnlinkCall == nops' = nops + 1 /\ last'.op = "unlink"
\* the blocks a step has changed
ChangedBlocks ==
    {b \in (DOMAIN mapped_data_) \cup (DOMAIN mapped_data_') :
         Blk(mapped_data_', b) # Blk(mapped_data_, b)}
\* the headers whose hash_chain points at header blk
ChainBefore(d, blk) == {h \in LiveHeaders(d) \ {ROOT_BLOCK} : Blk(d, h)[124] = blk}
\* the unlink of the file at path, whose header is blk, has removed it
Unlinked(path, blk) ==
    /\ last'.ret = 0
    /\ Resolve(mapped_data_', path) = 0
    /\ ~get_entry(VolNext, path, clock).ok
    /\ free_blocks_' = free_blocks_ \cup {blk} \cup DataBlocksOf(mapped_data_, blk)
    /\ used_blocks_' = used_blocks_ \ ({blk} \cup DataBlocksOf(mapped_data_, blk))
    /\ ChangedBlocks \subseteq
           {Resolve(mapped_data_, ParentPath(path))}
               \cup ChainBefore(mapped_data_, blk) \cup BitmapPages(mapped_data_)
UnlinkOutcome(path, blk) ==
    IF blk = 0 THEN last'.ret = -ENOENT
    ELSE IF IsDirPath(mapped_data_, path) THEN last'.ret = -EISDIR
    ELSE Unlinked(path, blk)

\* C17: unlink returns -ENOENT when the path does not resolve and -EISDIR
\* when it names a directory; otherwise it returns 0, the name resolves no
\* more, the free set is what it was plus exactly the header block and the
\* blocks of the file's data chain, and no block is modified but the
\* parent directory, the predecessor in the hash chain and the bitmap.
C17_UnlinkOutcome ==
    [][UnlinkCall => UnlinkOutcome(last'.path, Resolve(mapped_data_, last'.path))]_vars
\* a file of two data blocks has been unlinked and the volume is as free
\* as it was when it was opened
C17_Witness ==
    /\ last.op = "unlink" /\ last.ret = 0
    /\ last.old_size > DATA_BYTES
    /\ free_blocks_ = TailFree
    /\ nops = MaxOps

\* a step of the rmdir handler
RmdirCall == nops' = nops + 1 /\ last'.op = "rmdir"
\* is one of the 72 hash slots of header blk not zero
SomeSlot(d, blk) ==
    \E slot \in 0 .. (HASH_TABLE_SIZE - 1) : Blk(d, blk)[6 + slot] # 0
\* the rmdir of the empty directory at path, whose header is blk, has
\* removed its entry and freed its header
Removed(path, blk) ==
    /\ last'.ret = 0
    /\ Resolve(mapped_data_', path) = 0
    /\ ~get_entry(VolNext, path, clock).ok
    /\ free_blocks_' = free_blocks_ \cup {blk}
    /\ used_blocks_' = used_blocks_ \ {blk}
RmdirOutcome(path, blk) ==
    IF path = RootPath THEN last'.ret = -EINVAL
    ELSE IF blk = 0 THEN last'.ret = -ENOENT
    ELSE IF ~IsDirPath(mapped_data_, path) THEN last'.ret = -ENOTDIR
    ELSE IF SomeSlot(mapped_data_, blk) THEN last'.ret = -ENOTEMPTY
    ELSE Removed(path, blk)

\* C18: rmdir returns -EINVAL for the root, -ENOENT for a path that names
\* nothing, -ENOTDIR for a file, and -ENOTEMPTY whenever one of the 72
\* hash slots of the directory is not zero; only when all 72 are zero does
\* it remove the entry, free the header and return 0.
C18_RmdirOutcome ==
    [][RmdirCall => RmdirOutcome(last'.path, Resolve(mapped_data_, last'.path))]_vars

\* the last call was a write that stored fewer bytes than it was given,
\* and the number of bytes it reports as stored
ShortWrite == last.op = "write" /\ last.size > 0 /\ last.ret # last.size
StoredBytes == IF last.ret < 0 THEN 0 ELSE last.ret

\* C19: when a block allocation fails during a write, the call returns
\* the number k of bytes it stored (-ENOSPC when none), and the file is
\* consistent at that count: file_size = max(old size, offset + k), every
\* block taken for it is linked from the header, and the header and the
\* blocks of the chain have valid checksums.
C19_PartialWrite ==
    ShortWrite =>
        /\ last.ret = -ENOSPC \/ last.ret >= 0
        /\ get_actual_file_size(mapped_data_, last.h)
               = MaxOf(last.old_size, last.offset + StoredBytes)
        /\ used_blocks_ \cap TailFree
               \subseteq LiveHeaders(mapped_data_) \cup LiveData(mapped_data_)
        /\ ValidSum(Blk(mapped_data_, last.h))
        /\ \A b \in DataBlocksOf(mapped_data_, last.h) :
               ValidSum(Blk(mapped_data_, b))

\* a step of the write handler, and the size of the largest file whose
\* data blocks the header's 72 slots can index
WriteStep == nops' = nops + 1 /\ last'.op = "write"
MaxFileBytes == HASH_TABLE_SIZE * DATA_BYTES

\* C20: a file does not grow beyond 72 data blocks: a write of a byte at
\* an offset of 72 * 488 = 35136 or more returns -ENOSPC or the byte count
\* 0 and allocates no block.
C20_NoBlock73 ==
    [][WriteStep /\ last'.size > 0 /\ last'.offset >= MaxFileBytes =>
          /\ last'.ret \in {-ENOSPC, 0}
          /\ free_blocks_' = free_blocks_
          /\ used_blocks_' = used_blocks_]_vars

\* the volume after close and open of the same image: the sets come from
\* parse_bitmap, dir_cache_ is empty
Reopened(fu) ==
    [disk |-> mapped_data_, free |-> fu.free, used |-> fu.used,
     cache |-> EmptyCache, read_only |-> FALSE]
Remounted == Reopened(parse_bitmap(mapped_data_))
\* what getattr reports as st_size for a path that get_entry found as g
StatSize(g) ==
    IF ~g.ok THEN -ENOENT
    ELSE IF g.entry.is_directory THEN 0
    ELSE get_actual_file_size(g.v.disk, g.entry.block_num)
\* what a read of the whole file at a path that get_entry found as g returns
WholeFile(g) ==
    IF ~g.ok \/ g.entry.is_directory THEN <<>>
    ELSE Content(g.v.disk, g.entry.block_num)

\* C21: after any run of successful calls on a read/write volume, closing
\* it and opening the same image again gives a free set and a used set
\* equal to those in memory before the close, the same
\* listing for every directory, and the same size and bytes for every file.
C21_Remount ==
    /\ parse_filesystem(mapped_data_)
    /\ Remounted.free = free_blocks_
    /\ Remounted.used = used_blocks_
    /\ \A dir \in DirsNow :
           list_directory(Remounted, dir, clock).entries
               = list_directory(Vol, dir, clock).entries
    /\ \A path \in Paths :
           /\ StatSize(get_entry(Remounted, path, clock))
                  = StatSize(get_entry(Vol, path, clock))
           /\ WholeFile(get_entry(Remounted, path, clock))
                  = WholeFile(get_entry(Vol, path, clock))
\* a file holds data, another was unlinked, and a listing is in the cache
C21_Witness ==
    /\ nops = MaxOps
    /\ \E f \in LiveFiles(mapped_data_) : DataBlocksOf(mapped_data_, f) # {}
    /\ free_blocks_ # {}
    /\ dir_cache_ # EmptyCache

\* a write that stored all the bytes it was given
FullWrite == WriteStep /\ last'.size > 0 /\ last'.ret = last'.size
WrittenEnd == last'.offset + last'.size
WrittenSize == IF last'.old_size > WrittenEnd THEN last'.old_size ELSE WrittenEnd
\* C22: after a write of n bytes at an offset to a file of size S that
\* completes in full, file_size in the header is max(S, offset + n), and
\* the next getattr of the file's path reports exactly that size.
C22_WriteSize ==
    [][FullWrite =>
          /\ Blk(mapped_data_', last'.h)[81] = WrittenSize
          /\ \A path \in Paths :
                 Resolve(mapped_data_, path) = last'.h =>
                     StatSize(get_entry(VolNext, path, clock')) = WrittenSize]_vars
\* a full write that grew a file that held bytes
C22_Witness ==
    /\ last.op = "write" /\ last.ret = last.size /\ last.size > 0
    /\ last.old_size > 0
    /\ last.offset + last.size > last.old_size
    /\ \E path \in Paths : Resolve(mapped_data_, path) = last.h

\* the data block of index idx in the chain that starts at cur (0: the
\* chain ends before it)
RECURSIVE ChainAt(_, _, _)
ChainAt(d, cur, idx) ==
    IF cur = 0 \/ ~InImage(cur) THEN 0
    ELSE IF idx = 0 THEN cur
    ELSE ChainAt(d, Blk(d, cur)[4], idx - 1)
\* byte q of the payload of data block b, 0 at and after its data_size
\* (read unsigned) and in a block that does not exist
StoredByte(d, b, q) ==
    IF b = 0 THEN 0
    ELSE IF Blk(d, b)[3] >= 0 /\ q >= Blk(d, b)[3] THEN 0
    ELSE GetByte(Blk(d, b), 24 + q)
ByteAt(d, f, p) ==
    StoredByte(d, ChainAt(d, Blk(d, f)[4], p \div DATA_BYTES), p % DATA_BYTES)
\* the bytes [from, to) of file f
BytesOf(d, f, from, to) == [i \in 1 .. (to - from) |-> ByteAt(d, f, from + i - 1)]
ExpectedRead(d, f, offset, n) ==
    IF offset >= Blk(d, f)[81] THEN <<>>
    ELSE BytesOf(d, f, offset,
                 IF offset + n < Blk(d, f)[81] THEN offset + n ELSE Blk(d, f)[81])
\* C23: a read of n bytes at an offset returns nothing when the offset is
\* at or after file_size, and otherwise exactly min(n, file_size - offset)
\* bytes, where the byte at position p is payload byte p mod 488 of the
\* chain block of index p div 488 if that block exists and p mod 488 is
\* below its data_size, and 0 otherwise.
C23_Read ==
    last.op = "read" =>
        /\ last.data = ExpectedRead(mapped_data_, last.h, last.offset, last.size)
        /\ last.ret = Len(last.data)
\* a read cut short by the end of the file that returned stored bytes and
\* zeros for payload bytes past a data_size
C23_Witness ==
    /\ last.op = "read"
    /\ 0 < last.ret /\ last.ret < last.size
    /\ \E i \in 1 .. last.ret : last.data[i] # 0
    /\ \E p \in last.offset .. (last.offset + last.ret - 1) :
           /\ ChainAt(mapped_data_, Blk(mapped_data_, last.h)[4], p \div DATA_BYTES) # 0
           /\ ByteAt(mapped_data_, last.h, p) = 0
           /\ GetByte(Blk(mapped_data_,
                          ChainAt(mapped_data_, Blk(mapped_data_, last.h)[4],
                                  p \div DATA_BYTES)), 24 + (p % DATA_BYTES)) # 0

CreateCall == nops' = nops + 1 /\ last'.op = "create"
\* the blocks of the files on the volume: headers and data chains
FileBlocks(d) == LiveFiles(d) \cup LiveData(d)
\* C24: on a volume filled with files until create returned -ENOSPC,
\* create returns -ENOSPC exactly when its allocate_block finds no block;
\* an unlink adds to the free set the header block and the data blocks of
\* the unlinked file, so that the free set is as large as the number of
\* blocks of the files unlinked and not made again; and a create that
\* follows an unlink succeeds.
C24_DiskFull ==
    /\ [](Cardinality(free_blocks_)
              = TailBlocks - Cardinality(FileBlocks(mapped_data_)))
    /\ [][CreateCall =>
             /\ last'.ret = -ENOSPC <=>
                    /\ MakeCode(last'.path) \notin {-ENAMETOOLONG, -EEXIST, -ENOENT}
                    /\ allocate_block(Vol).block = 0
             /\ allocate_block(Vol).block = 0 <=> free_blocks_ = {}
             /\ free_blocks_ # {} /\ MakeCode(last'.path) = 0 => last'.ret = 0]_vars
    /\ [][UnlinkStep =>
             Cardinality(free_blocks_') =
                 Cardinality(free_blocks_) + 1
                     + Cardinality(DataBlocksOf(mapped_data_,
                                                Resolve(mapped_data_, last'.path)))]_vars
\* on the full volume a file of two data blocks was unlinked and the next
\* create succeeded
C24_Witness ==
    /\ last.op = "create" /\ last.ret = 0
    /\ Cardinality(free_blocks_) = 2
    /\ free_blocks_ \cap fh = {}

TruncStep == nops' = nops + 1 /\ last'.op = "truncate" /\ last'.ret = 0
\* C25: after an empty file, as create leaves it, is truncated to a size
\* k > 0, the file size is k, no data block has been allocated, and a
\* read of [0, k) returns k zero bytes.
C25_SparseHole ==
    [][/\ TruncStep
       /\ last'.old_size = 0 /\ last'.size > 0
       /\ Blk(mapped_data_, last'.h)[4] = 0
       =>
       /\ get_actual_file_size(mapped_data_', last'.h) = last'.size
       /\ Blk(mapped_data_', last'.h)[4] = 0
       /\ free_blocks_' = free_blocks_
       /\ used_blocks_' = used_blocks_
       /\ read_file(mapped_data_', last'.h, 0, last'.size) = Zeros(last'.size)]_vars
\* a file that create has just made was truncated to 1010 bytes
C25_Witness ==
    /\ last.op = "truncate" /\ last.ret = 0
    /\ nops = 2
    /\ last.old_size = 0 /\ last.size = 1010
    /\ Blk(mapped_data_, last.h)[4] = 0
    /\ Len(read_file(mapped_data_, last.h, 0, last.size)) = 1010

\* the days, mins and ticks of the Amiga time a are in range
AmigaRange(a) ==
    /\ a[1] >= 0
    /\ a[2] \in 0 .. 1439
    /\ a[3] \in 0 .. 2999
    /\ a[3] % 50 = 0
RoundTrip(a) == amiga_to_unix_time(a[1], a[2], a[3])
\* C26: for every host time t of whole seconds from the Amiga epoch
\* (1 Jan 1978) on within 32-bit range, unix_to_amiga(t) has mins in
\* 0..1439 and ticks in 0..2999 that are a multiple of 50, and
\* amiga_to_unix(unix_to_amiga(t)) = t; so are the timestamps that the
\* handlers store at t and the mtime the listing reads back from them.
C26_TimeRoundTrip ==
    /\ AmigaRange(unix_to_amiga_time(clock))
    /\ RoundTrip(unix_to_amiga_time(clock)) = clock
    /\ \A h \in LiveHeaders(mapped_data_) \ {ROOT_BLOCK} :
           /\ AmigaRange(<<Blk(mapped_data_, h)[102], Blk(mapped_data_, h)[103],
                           Blk(mapped_data_, h)[104]>>)
           /\ EntryOf(Blk(mapped_data_, h), h).mtime = clock
    /\ nops > 0 =>
           /\ AmigaRange(<<Blk(mapped_data_, ROOT_BLOCK)[105],
                           Blk(mapped_data_, ROOT_BLOCK)[106],
                           Blk(mapped_data_, ROOT_BLOCK)[107]>>)
           /\ amiga_to_unix_time(Blk(mapped_data_, ROOT_BLOCK)[105],
                                 Blk(mapped_data_, ROOT_BLOCK)[106],
                                 Blk(mapped_data_, ROOT_BLOCK)[107]) = clock
\* a file was made, written and listed in the last second of the 32-bit
\* range, which is not the first of its minute
C26_Witness ==
    /\ clock = LastTime
    /\ unix_to_amiga_time(clock)[3] > 0 /\ unix_to_amiga_time(clock)[2] > 0
    /\ last.op = "open" /\ last.ret = 0
    /\ get_actual_file_size(mapped_data_, Resolve(mapped_data_, FilePath)) = 10
    /\ \E path \in DOMAIN dir_cache_ : \E i \in 1 .. Len(dir_cache_[path]) :
           dir_cache_[path][i].mtime = clock

\* a truncate that made the file smaller
ShrinkStep == TruncStep /\ last'.size < last'.old_size
\* the data block that ends a file of k > 0 bytes (0: the chain is shorter)
Terminal(d, f, k) == ChainAt(d, Blk(d, f)[4], (k + DATA_BYTES - 1) \div DATA_BYTES - 1)
TerminalSize(k) == IF k % DATA_BYTES = 0 THEN DATA_BYTES ELSE k % DATA_BYTES
\* C27: after truncate(path, k) with k below the current size, the new
\* terminal data block has next_data = 0 and data_size = k mod 488 (488 if
\* k > 0 is a multiple of 488), every block after it is freed, first_data
\* is 0 when k = 0, and file_size is k.
C27_Shrink ==
    [][ShrinkStep =>
          /\ get_actual_file_size(mapped_data_', last'.h) = last'.size
          /\ last'.size = 0 => Blk(mapped_data_', last'.h)[4] = 0
          /\ DataBlocksOf(mapped_data_, last'.h)
                 \ DataBlocksOf(mapped_data_', last'.h) \subseteq free_blocks_'
          /\ last'.size > 0 /\ Terminal(mapped_data_', last'.h, last'.size) # 0 =>
                 /\ Blk(mapped_data_', Terminal(mapped_data_', last'.h, last'.size))[4] = 0
                 /\ Blk(mapped_data_', Terminal(mapped_data_', last'.h, last'.size))[3]
                        = TerminalSize(last'.size)]_vars

\* C28: a truncate to a size k below the current size keeps the prefix of
\* the file, whatever writes and truncates have made of the file before
\* (sparse files too): a read of [0, k) returns the same bytes after it as
\* before it.
C28_PrefixKept ==
    [][ShrinkStep =>
          read_file(mapped_data_', last'.h, 0, last'.size)
              = read_file(mapped_data_, last'.h, 0, last'.size)]_vars

\* the last call was a truncate to a smaller size, and this step makes the
\* same file larger, by a write past its end or by a truncate
GrowsAfterShrink ==
    /\ last.op = "truncate" /\ last.ret = 0 /\ last.size < last.old_size
    /\ nops' = nops + 1
    /\ last'.h = last.h
    /\ \/ last'.op = "write" /\ last'.ret = last'.size
       \/ last'.op = "truncate" /\ last'.ret = 0
    /\ get_actual_file_size(mapped_data_', last.h) > last.size
\* position p is one the growing step has written
WrittenNow(p) ==
    /\ last'.op = "write"
    /\ p >= last'.offset
    /\ p < last'.offset + last'.size
\* the bytes of the file from k on, as read after the step
ReadFrom(k) ==
    read_file(mapped_data_', last.h, k, get_actual_file_size(mapped_data_', last.h) - k)
\* C29: after a truncate to a smaller size k that is followed by growth
\* (a write past the end or a truncate to a larger size), every byte in
\* [k, new size) that was not written since the truncate reads as zero.
C29_NoResurface ==
    [][GrowsAfterShrink =>
          \A i \in 1 .. Len(ReadFrom(last.size)) :
              ~WrittenNow(last.size + i - 1) => ReadFrom(last.size)[i] = 0]_vars

\* a write through a handle whose file "/a" has been unlinked
StaleWrite == WriteStep /\ Resolve(mapped_data_, FilePath) # last'.h
\* C30: a handle only lets write modify the file it was opened on: after
\* the unlink of that file a write through the old handle allocates no
\* block, modifies no block that is in the free set, and changes no other
\* file or directory, one that has reused the freed header block included.
C30_StaleHandle ==
    [][StaleWrite =>
          /\ free_blocks_' = free_blocks_
          /\ used_blocks_' = used_blocks_
          /\ \A b \in free_blocks_ : Blk(mapped_data_', b) = Blk(mapped_data_, b)
          /\ \A b \in LiveHeaders(mapped_data_) \cup LiveData(mapped_data_) :
                 Blk(mapped_data_', b) = Blk(mapped_data_, b)]_vars

\* the chain that starts at data block cur comes to an end without
\* passing a block of seen or a block twice
RECURSIVE ChainEnds(_, _, _)
ChainEnds(d, cur, seen) ==
    \/ cur = 0
    \/ /\ cur \notin seen
       /\ InImage(cur)
       /\ ChainEnds(d, Blk(d, cur)[4], seen \cup {cur})
\* C31: no block number occurs in the data chains of two different files
\* or twice in one chain, and no block of a data chain is a header block,
\* a bitmap page, the root or a boot block.
C31_ChainsDisjoint ==
    /\ \A f \in LiveFiles(mapped_data_) :
           ChainEnds(mapped_data_, Blk(mapped_data_, f)[4], {})
    /\ \A f, g \in LiveFiles(mapped_data_) :
           f # g => DataBlocksOf(mapped_data_, f) \cap DataBlocksOf(mapped_data_, g) = {}
    /\ LiveData(mapped_data_)
           \cap (LiveHeaders(mapped_data_) \cup BitmapPages(mapped_data_)
                     \cup {0, 1, ROOT_BLOCK}) = {}
\* two files with data chains, one of them of three blocks that a write
\* has made longer after a truncate of the other file gave blocks back
C31_Witness ==
    /\ nops = MaxOps
    /\ last.op = "write" /\ last.ret = last.size
    /\ Cardinality(LiveFiles(mapped_data_)) = 2
    /\ \A f \in LiveFiles(mapped_data_) : DataBlocksOf(mapped_data_, f) # {}
    /\ \E f \in LiveFiles(mapped_data_) :
           Cardinality(DataBlocksOf(mapped_data_, f)) >= 3

\* the bitmap page of block b (0: the root names none)
PageOf(d, b) ==
    IF b \div BITMAP_SPAN >= BM_PAGES THEN 0
    ELSE Blk(d, ROOT_BLOCK)[79 + (b \div BITMAP_SPAN)]
\* allocate_block has nothing to hand out on volume v
NoneToAllocate(v) == v.free = {} \/ PageOf(v.disk, Min(v.free)) = 0
\* a is what allocate_block returns on v and leaves of v when it hands
\* out the lowest free block
Allocated(v, a) ==
    /\ a.block = Min(v.free)
    /\ \A b \in v.free : a.block <= b
    /\ a.v.free = v.free \ {a.block}
    /\ a.v.used = v.used \cup {a.block}
    /\ ~BitmapBit(a.v.disk, a.block)
    /\ ValidSum(Blk(a.v.disk, PageOf(v.disk, a.block)))
    /\ Blk(a.v.disk, a.block) = ZeroBlock
    /\ \A b \in (DOMAIN v.disk) \ {a.block, PageOf(v.disk, a.block)} :
           Blk(a.v.disk, b) = Blk(v.disk, b)
\* C32: allocate on a non-empty free set whose bitmap page exists returns
\* the lowest free block, moves it from the free set to the used set,
\* clears its bitmap bit, refreshes the checksum of the bitmap page and
\* zeroes the block; with an empty free set or no bitmap page it fails and
\* changes neither set nor any byte of the image.
C32_Allocate ==
    IF NoneToAllocate(Vol)
    THEN allocate_block(Vol) = [v |-> Vol, block |-> 0]
    ELSE Allocated(Vol, allocate_block(Vol))
\* an unlink has returned a header block that still holds its fields, and
\* it is the lowest free block
C32_Witness ==
    /\ last.op = "unlink" /\ last.ret = 0
    /\ free_blocks_ # {}
    /\ PageOf(mapped_data_, Min(free_blocks_)) # 0
    /\ Blk(mapped_data_, Min(free_blocks_)) # ZeroBlock
    /\ BitmapBit(mapped_data_, Min(free_blocks_))

\* the boot blocks, the root and the bitmap pages the root lists
SystemBlocks(d) == {0, 1, ROOT_BLOCK} \cup BitmapPages(d)
\* C33: the blocks 0 and 1, the root block and every bitmap page of
\* bm_pages are in the used set and not in the free set in every state;
\* free_block of 0, 1 or the root changes nothing; and allocate_block
\* hands out none of these blocks (its result 0 reports failure).
C33_SystemBlocks ==
    /\ SystemBlocks(mapped_data_) \subseteq used_blocks_
    /\ SystemBlocks(mapped_data_) \cap free_blocks_ = {}
    /\ \A b \in {0, 1, ROOT_BLOCK} : free_block(Vol, b) = Vol
    /\ LET got == allocate_block(Vol)
       IN  got.block = 0 \/ got.block \notin SystemBlocks(mapped_data_)
\* on the volume whose bitmap has the bits of the system blocks set, a
\* directory was removed and a block can be handed out
C33_Witness ==
    /\ BitmapBit(mapped_data_, ROOT_BLOCK) /\ BitmapBit(mapped_data_, 0)
    /\ last.op = "rmdir" /\ last.ret = 0
    /\ allocate_block(Vol).block # 0

\* what the claim compares of a listing: name, directory flag, header
\* block number and size of every entry
Listed(entries) ==
    [i \in 1 .. Len(entries) |->
        [name |-> entries[i].name, is_directory |-> entries[i].is_directory,
         block_num |-> entries[i].block_num, size |-> entries[i].size]]
\* list_directory on this volume with an empty dir_cache_
FreshWalk(path) == list_directory([Vol EXCEPT !.cache = EmptyCache], path, clock)
\* C34: after any operation, succeeded or failed, every listing held in
\* dir_cache_ equals the listing a walk of the blocks gives: the same
\* names, directory flags, header block numbers and file sizes.
C34_CacheCoherent ==
    \A path \in DOMAIN dir_cache_ :
        /\ FreshWalk(path).ok
        /\ Listed(dir_cache_[path]) = Listed(FreshWalk(path).entries)

\* a write or a truncate call, whatever it returned, and the header block
\* of the file it was made on (0: the path names no entry)
ChangeStep == nops' = nops + 1 /\ last'.op \in {"write", "truncate"}
Target ==
    IF last'.op = "write" THEN last'.h ELSE Resolve(mapped_data_, last'.path)
\* C35: a write or a truncate of file A leaves to every other file B its
\* size, every byte a read returns, its header block and the blocks of
\* its data chain, and to every directory the set of names it lists.
C35_Frame ==
    [][ChangeStep =>
        /\ \A B \in LiveFiles(mapped_data_) \ {Target} :
               /\ get_actual_file_size(mapped_data_', B)
                      = get_actual_file_size(mapped_data_, B)
               /\ Content(mapped_data_', B) = Content(mapped_data_, B)
               /\ \A b \in {B} \cup DataBlocksOf(mapped_data_, B) :
                      Blk(mapped_data_', b) = Blk(mapped_data_, b)
        /\ \A dir \in LiveDirs(mapped_data_) :
               NamesOf(DirEntries(mapped_data_', dir))
                   = NamesOf(DirEntries(mapped_data_, dir))]_vars
\* a write of 500 bytes was made on one file while another file holds data
C35_Witness ==
    /\ last.op = "write" /\ last.ret = 500
    /\ last.h \in LiveFiles(mapped_data_)
    /\ \E B \in LiveFiles(mapped_data_) \ {last.h} :
           \E i \in 1 .. Len(Content(mapped_data_, B)) : Content(mapped_data_, B)[i] # 0

\* C36: every data block of every file's chain has type T_DATA,
\* header_key equal to the number of the file's header block and seq_num
\* equal to its 1-based position in the chain.
C36_DataHeaders ==
    \A f \in LiveFiles(mapped_data_) :
        LET chain == DataChain(mapped_data_, f)
        IN  \A i \in 1 .. Len(chain) :
                /\ Blk(mapped_data_, chain[i])[0] = T_DATA
                /\ Blk(mapped_data_, chain[i])[1] = f
                /\ Blk(mapped_data_, chain[i])[2] = i

\* the open call has returned
MountDone == last.op = "mount" /\ nops = 1
\* C37: open accepts or rejects by the root block alone: it fails when
\* block 880 is outside the image file, when the root's type is not 2 or
\* when its sec_type is neither 1 nor 0, and succeeds otherwise, with 880
\* as the root whatever the boot block's root pointer and DOS type say.
C37_OpenByRoot ==
    MountDone =>
        /\ last.ret = 0 <=>
               /\ (ROOT_BLOCK + 1) * BLOCK_SIZE <= last.size
               /\ Blk(mapped_data_, ROOT_BLOCK)[0] = 2
               /\ Blk(mapped_data_, ROOT_BLOCK)[127] \in {1, 0}
        /\ last.ret = 0 =>
               /\ 880 \in used_blocks_
               /\ find_directory_block(Vol, RootPath, clock).block = 880
\* an image with sec_type 0, a DOS type that is none and a boot block
\* that points elsewhere was opened
C37_Witness ==
    /\ MountDone /\ last.ret = 0
    /\ Blk(mapped_data_, ROOT_BLOCK)[127] = 0
    /\ Blk(mapped_data_, 0)[0] = 1263092555
    /\ Blk(mapped_data_, 0)[2] = ROOT_BLOCK + 2

\* the blocks whose bit is CLEAR in a bitmap page the root lists
ClearInBitmap(d) ==
    {b \in 0 .. (TotalBlocks - 1) :
        PageOf(d, b) # 0 /\ InImage(PageOf(d, b)) /\ ~BitmapBit(d, b)}
\* C38: after a successful open the used set is exactly 0, 1, 880, the
\* bitmap pages of bm_pages, the blocks whose bitmap bit is CLEAR, and the
\* header and data blocks reachable from the root through hash slots,
\* hash_chain pointers, directory hash tables and data chains; every
\* other block from 2 on is in the free set.
C38_UsedSet ==
    (MountDone /\ last.ret = 0) =>
        /\ used_blocks_ =
               {0, 1, 880} \cup BitmapPages(mapped_data_)
                   \cup ClearInBitmap(mapped_data_)
                   \cup LiveHeaders(mapped_data_) \cup LiveData(mapped_data_)
        /\ free_blocks_ = (2 .. (TotalBlocks - 1)) \ used_blocks_

\* the headers reachable through hash_chain from the slots of directory
\* block dir
RECURSIVE ChainClosure(_, _)
ChainClosure(d, S) ==
    IF {Blk(d, b)[124] : b \in {x \in S : InImage(x)}} \ {0} \subseteq S THEN S
    ELSE ChainClosure(d, S \cup ({Blk(d, b)[124] : b \in {x \in S : InImage(x)}} \ {0}))
InBuckets(d, dir) == {b \in ChainClosure(d, SlotTargets(d, dir)) : InImage(b)}
Named(d, dir) == {b \in InBuckets(d, dir) : BcplRead(Blk(d, b), 432) # <<>>}
\* C39: the listing of a directory holds every header with a name that is
\* reachable through hash_chain from one of its 72 slots exactly once,
\* with its name, directory flag, size (0 for a directory) and block
\* number; a header with an empty name is left out and the walk goes on
\* behind it.
C39_ListsAll ==
    \A dir \in LiveDirs(mapped_data_) :
        LET es == list_slots(mapped_data_, dir, 0)
        IN  /\ Len(es) = Cardinality(Named(mapped_data_, dir))
            /\ \A b \in Named(mapped_data_, dir) :
                   \E i \in 1 .. Len(es) :
                       /\ es[i].block_num = b
                       /\ es[i].name = BcplRead(Blk(mapped_data_, b), 432)
                       /\ es[i].is_directory = (Blk(mapped_data_, b)[127] = ST_DIR)
                       /\ es[i].size = IF Blk(mapped_data_, b)[127] = ST_DIR THEN 0
                                       ELSE Blk(mapped_data_, b)[81]
\* the root was listed while a header without a name stood in its bucket
\* before two headers with names
C39_Witness ==
    /\ RootPath \in DOMAIN dir_cache_
    /\ Len(dir_cache_[RootPath]) = 2
    /\ \E b \in InBuckets(mapped_data_, ROOT_BLOCK) :
           /\ BcplRead(Blk(mapped_data_, b), 432) = <<>>
           /\ Blk(mapped_data_, b)[124] \in Named(mapped_data_, ROOT_BLOCK)
           /\ Blk(mapped_data_, Blk(mapped_data_, b)[124])[124]
                  \in Named(mapped_data_, ROOT_BLOCK)

\* C40: open terminates on every image: the bitmap parse and the scan of
\* the used blocks come to an end even when hash chains, directory hash
\* tables or data chains hold cycles or self-references.
C40_OpenTerminates == <>MountDone
====
